---- MODULE Spec2Model ----
(***************************************************************************)
(* Project Red Dust: the deterministic generator, the World State, the     *)
(* per-tick engine (MarsEnvironment) and the timeline controller           *)
(* (SimulationController) with snapshots and time travel.                  *)
(*                                                                         *)
(* Quantities that are floats in the source (resources, health, mental     *)
(* state, mission progress) are kept in hundredths of a unit, so 1000.0    *)
(* is 100000 and 0.13 is 13.  Probabilities are kept in basis points       *)
(* (1/10000).  The generator accumulator is the exact 31-bit integer.      *)
(***************************************************************************)
EXTENDS Integers, Sequences, FiniteSets, TLC

(***************************************************************************)
(* Bounds of the model.                                                    *)
(***************************************************************************)
MaxTick == 5
MaxResolves == 1

Min(a, b) == IF a < b THEN a ELSE b
Max(a, b) == IF a > b THEN a ELSE b

\* The value of F at e, with e computed once: a local variable assigned e and
\* read by the statements F that follow the assignment.
Bind(e, F(_)) == CHOOSE r \in {F(x) : x \in {e}} : TRUE

(***************************************************************************)
(* harness/rand_gen.py : DeterministicRandom                               *)
(* 2^31 does not fit a machine integer of the checker, so the modulus is   *)
(* written as the pair <<high, low>> of its 16-bit limbs and the LCG step  *)
(* is computed limb-wise; the result is the exact value of                 *)
(* (1103515245 * s + 12345) mod 2^31.                                      *)
(***************************************************************************)
Limb == 65536
HalfLimb == 32768
_MODULUS == <<HalfLimb, 0>>
_MULTIPLIER == 1103515245
_INCREMENT == 12345

lcg(s) ==
    LET mh == _MULTIPLIER \div Limb
        ml == _MULTIPLIER % Limb
        sh == s \div Limb
        sl == s % Limb
        low == ml * sl
        mid == (mh * sl + ml * sh) % HalfLimb
        x == (low % Limb) + _INCREMENT
        hi == (mid + (low \div Limb) + (x \div Limb)) % HalfLimb
    IN  hi * Limb + (x % Limb)

\* seed % 2^31 for the seeds given to the constructor (0 <= seed < 2^31).
DeterministicRandom(seed) == [seed |-> seed, initial_seed |-> seed]

\* next_int(min_val, max_val) on accumulator g that has already been stepped.
next_int(g, min_val, max_val) == min_val + (g % (max_val - min_val + 1))

\* next_float() < p and next_float() <= p, p in basis points, on the stepped
\* accumulator g: g / 2^31 < bp / 10000.  2^31 = 10000 * 214748 + 3648.
FloatFloor(bp) == bp * 214748 + ((bp * 3648) \div 10000)
FloatExact(bp) == (bp * 3648) % 10000 = 0
next_float_lt(g, bp) == IF FloatExact(bp) THEN g < FloatFloor(bp) ELSE g <= FloatFloor(bp)
next_float_le(g, bp) == g <= FloatFloor(bp)

\* A get_state that reports the seed the generator was constructed with.
get_state_initial(gen) ==
    [seed |-> gen.initial_seed, initial_seed |-> gen.initial_seed,
     modulus |-> _MODULUS, multiplier |-> _MULTIPLIER, increment |-> _INCREMENT]

get_state(gen) ==
    [seed |-> gen.seed, initial_seed |-> gen.initial_seed,
     modulus |-> _MODULUS, multiplier |-> _MULTIPLIER, increment |-> _INCREMENT]

\* A set_state that verifies the constants and leaves the accumulator alone.
set_state_keep(gen, s) == gen

\* set_state: the two fields are assigned before the constants are verified.
set_state(gen, s) == [seed |-> s.seed, initial_seed |-> s.initial_seed]
set_state_raises(s) ==
    s.modulus # _MODULUS \/ s.multiplier # _MULTIPLIER \/ s.increment # _INCREMENT

\* The methods that draw, on the object gen.  The result is the object after
\* the call, the returned value as a one-element sequence (<<>> when the call
\* raised) and the exception ("" for none).  A float k / 2^31 is returned as
\* its numerator k.
Returned(gen, value) == [gen |-> gen, ret |-> <<value>>, exc |-> ""]
Raised(gen, exc) == [gen |-> gen, ret |-> <<>>, exc |-> exc]

\* next_int() with max_val None: the raw accumulator.
gen_next_raw(gen) ==
    Bind([gen EXCEPT !.seed = lcg(@)], LAMBDA g1 : Returned(g1, g1.seed))

gen_next_int(gen, min_val, max_val) ==
    Bind([gen EXCEPT !.seed = lcg(@)], LAMBDA g1 :
        IF max_val < min_val THEN Raised(g1, "ValueError")
        ELSE Returned(g1, next_int(g1.seed, min_val, max_val)))

gen_next_float(gen) ==
    Bind([gen EXCEPT !.seed = lcg(@)], LAMBDA g1 : Returned(g1, g1.seed))

\* A choice that draws the index twice and uses the second draw.
gen_choice_twice(gen, seq) ==
    IF Len(seq) = 0 THEN Raised(gen, "ValueError")
    ELSE Bind(gen_next_int(gen, 0, Len(seq) - 1), LAMBDA r0 :
         Bind(gen_next_int(r0.gen, 0, Len(seq) - 1), LAMBDA r :
             Returned(r.gen, seq[r.ret[1] + 1])))

gen_choice(gen, seq) ==
    IF Len(seq) = 0 THEN Raised(gen, "ValueError")
    ELSE Bind(gen_next_int(gen, 0, Len(seq) - 1), LAMBDA r :
             Returned(r.gen, seq[r.ret[1] + 1]))

(***************************************************************************)
(* env/schema.py : specializations, agents, GameState                      *)
(***************************************************************************)
SPECIALIZATION_BONUSES ==
    [engineer  |-> [repair_bonus |-> 30, energy_bonus |-> 20],
     scientist |-> [research_bonus |-> 40, food_bonus |-> 20],
     explorer  |-> [discovery_bonus |-> 50, range_bonus |-> 30],
     medic     |-> [health_bonus |-> 30, mental_bonus |-> 40],
     pilot     |-> [emergency_bonus |-> 30, failure_reduction |-> 20],
     commander |-> [team_efficiency |-> 15, mutiny_reduction |-> 10]]

\* Insertion order of the agents dict (create_initial_state).
crew_names ==
    <<"Commander Chen", "Dr. Rodriguez", "Engineer Tanaka", "Botanist Schmidt", "Pilot Okafor">>

specialization_map ==
    [n \in {crew_names[i] : i \in 1..Len(crew_names)} |->
        CASE n = "Commander Chen" -> "commander"
          [] n = "Dr. Rodriguez" -> "medic"
          [] n = "Engineer Tanaka" -> "engineer"
          [] n = "Botanist Schmidt" -> "scientist"
          [] n = "Pilot Okafor" -> "pilot"]

AgentNames == {crew_names[i] : i \in 1..Len(crew_names)}

Agent(name, spec) == [health |-> 10000, mental_state |-> 8000, specialization |-> spec]

is_alive(agent) == agent.health > 0

\* Agent.get_bonuses: the bonus table of the agent's specialization, {} if none.
get_bonuses(agent) ==
    IF agent.specialization \in DOMAIN SPECIALIZATION_BONUSES
    THEN SPECIALIZATION_BONUSES[agent.specialization]
    ELSE <<>>

\* dict.get(key, default) on a bonus table.
BonusGet(bonuses, key, default) ==
    IF key \in DOMAIN bonuses THEN bonuses[key] ELSE default

\* Iteration order of the resources dict.
ResourceOrder == <<"oxygen", "water", "energy", "food">>

LogEntry(tick, m, a, n) == [t |-> tick, m |-> m, a |-> a, n |-> n]

\* self.logs.insert(0, entry): the newest entry first.
add_log_first(st, m, a, n) == [st EXCEPT !.logs = <<LogEntry(st.tick, m, a, n)>> \o @]

\* GameState.add_log: the entry is stamped with the tick of the state.
add_log(st, m, a, n) == [st EXCEPT !.logs = Append(@, LogEntry(st.tick, m, a, n))]

get_resource(st, name) ==
    IF name \in DOMAIN st.resources THEN st.resources[name] ELSE 0

\* A modify_resource without the floor.
modify_resource_unclamped(st, name, delta) ==
    LET new_value == get_resource(st, name) + delta
        st1 == [st EXCEPT !.resources = (name :> new_value) @@ @]
    IN  IF new_value <= 0 THEN add_log(st1, "CRITICAL: depleted", <<name>>, 0) ELSE st1

modify_resource(st, name, delta) ==
    LET new_value == get_resource(st, name) + delta
        st1 == [st EXCEPT !.resources = (name :> Max(0, new_value)) @@ @]
    IN  IF new_value <= 0 THEN add_log(st1, "CRITICAL: depleted", <<name>>, 0) ELSE st1

\* An is_game_over that looks at the resources only.
is_game_over_resources(st) ==
    \E r \in {"oxygen", "water", "energy", "food"} : get_resource(st, r) <= 0

is_game_over(st) ==
    \/ \E r \in {"oxygen", "water", "energy", "food"} : get_resource(st, r) <= 0
    \/ ~ \E n \in DOMAIN st.agents : is_alive(st.agents[n])

create_initial_state ==
    LET st == [tick |-> 0,
               resources |-> [oxygen |-> 100000, water |-> 80000,
                              energy |-> 50000, food |-> 60000],
               logs |-> <<>>,
               agents |-> [n \in AgentNames |-> Agent(n, specialization_map[n])],
               pending_decisions |-> <<>>,
               missions |-> <<>>,
               rng_state |-> <<>>]
    IN  add_log(st, "Mission initialized", <<>>, 0)

(***************************************************************************)
(* agents/schema.py : AgentAction.  The free-text argument is a sequence   *)
(* of words; a word is an agent name in some letter case or a filler that  *)
(* contains no agent name.                                                 *)
(***************************************************************************)
WORK == "work"
REST == "rest"
SABOTAGE == "sabotage"
TALK == "talk"
REPAIR == "repair"
RESEARCH == "research"
EAT == "eat"

AgentAction(type, target, argument) == [type |-> type, target |-> target, argument |-> argument]

\* str.lower() on a word: agent names are the only words with capitals.
lower(word) ==
    CASE word = "Commander Chen" -> "commander chen"
      [] word = "Dr. Rodriguez" -> "dr. rodriguez"
      [] word = "Engineer Tanaka" -> "engineer tanaka"
      [] word = "Botanist Schmidt" -> "botanist schmidt"
      [] word = "Pilot Okafor" -> "pilot okafor"
      [] OTHER -> word

\* agent.name.lower() in action.argument.lower()
NameInArgument(name, argument) ==
    \E i \in 1..Len(argument) : lower(argument[i]) = lower(name)

\* agent_name = action.argument if action.argument else None ("" stands for None
\* and for any text that is not a key of the agents dict).
ArgumentAgentName(action) ==
    IF Len(action.argument) = 1 THEN action.argument[1] ELSE ""

(***************************************************************************)
(* env/mars.py : templates and MarsEnvironment                             *)
(***************************************************************************)
\* list(DecisionType), in declaration order.
DecisionType ==
    <<"meteor_strike", "oxygen_crisis", "water_crisis", "energy_crisis", "food_crisis",
      "water_contamination", "solar_storm", "crew_mutiny", "equipment_failure", "supply_drop">>

\* DECISION_TEMPLATES: title and, per option, the effects dict as a sequence
\* of <<resource, delta>> in dict order.
DECISION_TEMPLATES ==
    [meteor_strike |->
        [title |-> "METEOR STRIKE IMMINENT!",
         options |-> << <<<<"energy", -10000>>>>, <<>>, <<<<"energy", -5000>>, <<"water", -3000>>>> >>],
     energy_crisis |->
        [title |-> "ENERGY CRISIS!",
         options |-> << <<<<"energy", 5000>>>>, <<<<"food", -3000>>>>, <<>> >>],
     water_contamination |->
        [title |-> "WATER CONTAMINATION!",
         options |-> << <<<<"water", -10000>>>>, <<<<"energy", -4000>>>>, <<<<"food", -2000>>>> >>],
     solar_storm |->
        [title |-> "SOLAR STORM WARNING!",
         options |-> << <<>>, <<<<"energy", -8000>>>>, <<>> >>],
     crew_mutiny |->
        [title |-> "CREW MUTINY!",
         options |-> << <<<<"food", -3000>>>>, <<>>, <<>> >>],
     equipment_failure |->
        [title |-> "EQUIPMENT FAILURE!",
         options |-> << <<<<"energy", -5000>>>>, <<<<"water", -3000>>>>, <<>> >>],
     supply_drop |->
        [title |-> "SUPPLY DROP AVAILABLE!",
         options |-> << <<<<"oxygen", 5000>>, <<"water", 5000>>, <<"energy", 5000>>, <<"food", 5000>>>>,
                        <<<<"oxygen", 3000>>, <<"water", 3000>>>>, <<>> >>]]

\* list(MissionType), in declaration order.
MissionType == <<"produce_resources", "maintain_systems", "explore", "research">>

MissionTemplate(title, target, resource, reward) ==
    [title |-> title, target |-> target, resource |-> resource, reward |-> reward]

MISSION_TEMPLATES ==
    [produce_resources |->
        << MissionTemplate("oxygen output", 5000, "oxygen", <<<<"energy", 1000>>>>),
           MissionTemplate("collect water", 4000, "water", <<<<"energy", 1000>>>>),
           MissionTemplate("generate power", 6000, "energy", <<<<"oxygen", 1000>>>>),
           MissionTemplate("food production", 3000, "food", <<<<"water", 1000>>>>) >>,
     maintain_systems |->
        << MissionTemplate("system maintenance", 100, "repair", <<<<"energy", 2000>>>>),
           MissionTemplate("clean solar panels", 100, "clean", <<<<"energy", 1500>>>>),
           MissionTemplate("check life support", 100, "check", <<<<"oxygen", 1500>>>>) >>,
     explore |->
        << MissionTemplate("explore new area", 100, "explore", <<<<"energy", 3000>>>>),
           MissionTemplate("collect samples", 100, "sample", <<<<"food", 2000>>>>) >>,
     research |->
        << MissionTemplate("research algorithm", 100, "research", <<<<"energy", 2500>>>>),
           MissionTemplate("analyze data", 100, "analyze", <<<<"water", 2000>>>>) >>]

OXYGEN_PER_AGENT == 200
FOOD_PER_AGENT == 50
WATER_PER_AGENT == 100
ENERGY_BASE_CONSUMPTION == 500
ENERGY_PRODUCTION == 800
WATER_RECYCLING == 80
SOLAR_PANEL_FAILURE_PROB == 500
LIFE_SUPPORT_FAILURE_PROB == 300
DECISION_PROB == 800
MISSION_PROB == 1000
MAX_PENDING_DECISIONS == 3
MAX_MISSIONS == 5

\* The engine threads the World State st, the accumulator g of its generator
\* and the exception raised so far ("" for none) through the stages.
\* initial_seed is the other field of the generator, which no draw changes.
World(st, gen, exc) == [st |-> st, g |-> gen.seed, exc |-> exc, initial_seed |-> gen.initial_seed]

_has_specialization(st, agent_name, spec) ==
    /\ agent_name \in DOMAIN st.agents
    /\ st.agents[agent_name].specialization = spec

_get_agent_bonuses(st, agent_name) ==
    IF agent_name \in DOMAIN st.agents THEN get_bonuses(st.agents[agent_name]) ELSE <<>>

\* The alive agents, in dict order.
RECURSIVE AliveFrom(_, _)
AliveFrom(st, i) ==
    IF i > Len(crew_names) THEN <<>>
    ELSE IF is_alive(st.agents[crew_names[i]])
         THEN <<crew_names[i]>> \o AliveFrom(st, i + 1)
         ELSE AliveFrom(st, i + 1)

alive_agents(st) == AliveFrom(st, 1)

\* The first agent, in dict order, with the specialization ("" if none).
RECURSIVE FirstWithFrom(_, _, _)
FirstWithFrom(st, spec, i) ==
    IF i > Len(crew_names) THEN ""
    ELSE IF _has_specialization(st, crew_names[i], spec) THEN crew_names[i]
         ELSE FirstWithFrom(st, spec, i + 1)

FirstWith(st, spec) == FirstWithFrom(st, spec, 1)

\* f"{amount:.1f}": the amount in tenths, rounded to nearest.
Tenths(amount) == (amount + 5) \div 10

RECURSIVE LogCriticallyLow(_, _)
LogCriticallyLow(st, i) ==
    IF i > Len(ResourceOrder) THEN st
    ELSE LET r == ResourceOrder[i]
         IN  Bind(IF st.resources[r] < 2000
                  THEN add_log(st, "WARNING: critically low", <<r>>, Tenths(st.resources[r]))
                  ELSE st,
                  LAMBDA s1 : LogCriticallyLow(s1, i + 1))

_consume_resources(st, num_alive) ==
    IF num_alive = 0 THEN st
    ELSE
    LET low_energy == get_resource(st, "energy") < 1000
        oxygen_consumption ==
            IF low_energy THEN 2 * num_alive * OXYGEN_PER_AGENT ELSE num_alive * OXYGEN_PER_AGENT
        water_consumed == num_alive * WATER_PER_AGENT
        water_recycled == (water_consumed * WATER_RECYCLING) \div 100
        energy_consumed == ENERGY_BASE_CONSUMPTION + num_alive * 50
    IN  Bind(IF low_energy
             THEN add_log(st, "WARNING: Low energy! Oxygen consumption doubled.", <<>>, 0)
             ELSE st, LAMBDA s0 :
        Bind(modify_resource(s0, "oxygen", -oxygen_consumption), LAMBDA s1 :
        Bind(modify_resource(s1, "food", -(num_alive * FOOD_PER_AGENT)), LAMBDA s2 :
        Bind(modify_resource(s2, "water", -(water_consumed - water_recycled)), LAMBDA s3 :
        Bind(modify_resource(s3, "energy", -energy_consumed), LAMBDA s4 :
        LogCriticallyLow(s4, 1))))))

\* One generator draw: the accumulator after the LCG step.
Draw(w) == [w EXCEPT !.g = lcg(@)]
OnState(w, st) == [w EXCEPT !.st = st]

\* Health / mental-state boost of every agent named in the argument.
BoostHealth(st, action, bonuses) ==
    [st EXCEPT !.agents =
        [n \in DOMAIN @ |->
            IF NameInArgument(n, action.argument)
            THEN LET health_boost ==
                         IF _has_specialization(st, n, "medic")
                         THEN (500 * (100 + BonusGet(bonuses, "health_bonus", 30))) \div 100
                         ELSE 500
                 IN  [@[n] EXCEPT !.health = Min(10000, @ + health_boost)]
            ELSE @[n]]]

BoostMental(st, action, bonuses, base) ==
    [st EXCEPT !.agents =
        [n \in DOMAIN @ |->
            IF NameInArgument(n, action.argument)
            THEN LET mental_boost ==
                         IF _has_specialization(st, n, "medic")
                         THEN (base * (100 + BonusGet(bonuses, "mental_bonus", 40))) \div 100
                         ELSE base
                 IN  [@[n] EXCEPT !.mental_state = Min(10000, @ + mental_boost)]
            ELSE @[n]]]

ActionWork(w, action, agent_name, bonuses) ==
    LET st0 == w.st
    IN  Bind(IF _has_specialization(st0, agent_name, "scientist")
             THEN modify_resource(st0, "food",
                      (500 * (100 + BonusGet(bonuses, "food_bonus", 20))) \div 100)
             ELSE st0, LAMBDA s1 :
        Bind(OnState(w, s1), LAMBDA w1 :
        Bind(Draw(w1), LAMBDA d1 :
        Bind(Draw(d1), LAMBDA d2 :
        Bind(Draw(d2), LAMBDA d3 :
        LET found_resource == ResourceOrder[next_int(d2.g, 0, 3) + 1]
            amount == next_int(d3.g, 3, 8)
        IN
        Bind(IF _has_specialization(s1, agent_name, "explorer")
             THEN IF next_float_lt(d1.g, 100 * BonusGet(bonuses, "discovery_bonus", 50))
                  THEN OnState(d3, add_log(modify_resource(s1, found_resource, 100 * amount),
                                           "EXPLORER DISCOVERY", <<agent_name, found_resource>>, amount))
                  ELSE d1
             ELSE w1, LAMBDA w2 :
        LET energy_gain == IF _has_specialization(w2.st, agent_name, "pilot")
                           THEN (200 * (100 + BonusGet(bonuses, "emergency_bonus", 30))) \div 100
                           ELSE 200
        IN  OnState(w2, modify_resource(w2.st, "energy", energy_gain))))))))

ActionRepair(w, action, agent_name, bonuses) ==
    Bind(modify_resource(w.st, "energy", -500), LAMBDA s1 :
    Bind(Draw(OnState(w, s1)), LAMBDA d1 :
    Bind(Draw(d1), LAMBDA d2 :
    LET engineer == _has_specialization(s1, agent_name, "engineer")
        repair_bonus == BonusGet(bonuses, "repair_bonus", 30)
        repair_chance == IF engineer THEN (3000 * (100 + repair_bonus)) \div 100 ELSE 3000
        drawn == next_int(d2.g, 5, 15)
        resource_gain == IF engineer THEN (drawn * (100 + repair_bonus)) \div 100 ELSE drawn
        repaired == CASE action.target = "solar_panel" -> "energy"
                      [] action.target = "oxygen_generator" -> "oxygen"
                      [] action.target = "water_recycler" -> "water"
                      [] OTHER -> ""
    IN  IF next_float_lt(d1.g, repair_chance)
        THEN IF repaired # ""
             THEN OnState(d2, modify_resource(s1, repaired, 100 * resource_gain))
             ELSE d2
        ELSE d1)))

ActionSabotage(w, action) ==
    Bind(Draw(w), LAMBDA d1 :
        CASE action.target = "solar_panel" ->
                OnState(d1, modify_resource(w.st, "energy", -(100 * next_int(d1.g, 10, 30))))
          [] action.target = "oxygen_generator" ->
                OnState(d1, modify_resource(w.st, "oxygen", -(100 * next_int(d1.g, 5, 20))))
          [] action.target = "water_recycler" ->
                OnState(d1, modify_resource(w.st, "water", -(100 * next_int(d1.g, 5, 15))))
          [] action.target = "greenhouse" ->
                OnState(d1, modify_resource(w.st, "food", -(100 * next_int(d1.g, 5, 25))))
          [] OTHER -> w)

ActionEat(w, action, bonuses) ==
    Bind(Draw(w), LAMBDA d1 :
    Bind(modify_resource(w.st, "food", -(100 * next_int(d1.g, 1, 3))), LAMBDA s1 :
        OnState(d1, BoostHealth(s1, action, bonuses))))

ActionTalk(w, action, bonuses) ==
    Bind(BoostMental(w.st, action, bonuses, 200), LAMBDA s1 :
    Bind(FirstWith(s1, "commander"), LAMBDA commander :
    LET participants == Cardinality({n \in DOMAIN s1.agents : NameInArgument(n, action.argument)})
        energy_bonus ==
            IF commander # ""
            THEN 100 + BonusGet(get_bonuses(s1.agents[commander]), "team_efficiency", 15)
            ELSE 100
    IN  IF participants >= 2
        THEN OnState(w, modify_resource(s1, "energy", energy_bonus))
        ELSE OnState(w, s1)))

ApplyAction(w, action) ==
    Bind(ArgumentAgentName(action), LAMBDA agent_name :
    Bind(_get_agent_bonuses(w.st, agent_name), LAMBDA bonuses :
        CASE action.type = WORK -> ActionWork(w, action, agent_name, bonuses)
          [] action.type = REPAIR -> ActionRepair(w, action, agent_name, bonuses)
          [] action.type = SABOTAGE -> ActionSabotage(w, action)
          [] action.type = EAT -> ActionEat(w, action, bonuses)
          [] action.type = REST -> OnState(w, BoostMental(w.st, action, bonuses, 300))
          [] action.type = TALK -> ActionTalk(w, action, bonuses)
          [] OTHER -> w))

RECURSIVE LogActions(_, _, _)
LogActions(st, actions, i) ==
    IF i > Len(actions) THEN st
    ELSE Bind(add_log(st, "ACTION",
                      <<actions[i].type, actions[i].target>> \o actions[i].argument, 0),
              LAMBDA s1 : LogActions(s1, actions, i + 1))

RECURSIVE ApplyActions(_, _, _)
ApplyActions(w, actions, i) ==
    IF i > Len(actions) THEN w
    ELSE Bind(ApplyAction(w, actions[i]), LAMBDA w1 : ApplyActions(w1, actions, i + 1))

\* The stage logging each action just before its own effect.
RECURSIVE LogApplyActions(_, _, _)
LogApplyActions(w, actions, i) ==
    IF i > Len(actions) THEN w
    ELSE Bind(OnState(w, LogActions(w.st, <<actions[i]>>, 1)), LAMBDA w1 :
         Bind(ApplyAction(w1, actions[i]), LAMBDA w2 : LogApplyActions(w2, actions, i + 1)))

_process_actions_interleaved(w, actions) == LogApplyActions(w, actions, 1)

_process_actions(w, actions) ==
    Bind(OnState(w, LogActions(w.st, actions, 1)), LAMBDA w1 : ApplyActions(w1, actions, 1))

_produce_resources(st) ==
    Bind(FirstWith(st, "engineer"), LAMBDA engineer :
    LET energy_bonus == IF engineer # ""
                        THEN BonusGet(get_bonuses(st.agents[engineer]), "energy_bonus", 20)
                        ELSE 0
    IN  Bind(IF engineer # ""
             THEN add_log(st, "ENGINEER BONUS", <<engineer>>, energy_bonus)
             ELSE st, LAMBDA s1 :
        modify_resource(s1, "energy", (ENERGY_PRODUCTION * (100 + energy_bonus)) \div 100)))

_check_disasters(w) ==
    Bind(Draw(w), LAMBDA d1 :
    Bind(IF get_resource(w.st, "energy") < 500
         THEN IF next_float_lt(d1.g, LIFE_SUPPORT_FAILURE_PROB)
              THEN OnState(d1, add_log(modify_resource(w.st, "oxygen", -1000),
                                       "DISASTER: Life support system failure! Oxygen leak.", <<>>, 0))
              ELSE d1
         ELSE w, LAMBDA w1 :
    LET starved == [w1.st EXCEPT !.agents =
                       [n \in DOMAIN @ |->
                           IF is_alive(@[n]) THEN [@[n] EXCEPT !.health = @ - 500] ELSE @[n]]]
    IN  IF get_resource(w1.st, "food") < 1000
        THEN OnState(w1, add_log(starved, "WARNING: Crew experiencing starvation. Health declining.", <<>>, 0))
        ELSE w1))

_random_events(w) ==
    Bind(FirstWith(w.st, "pilot"), LAMBDA pilot :
    Bind(IF pilot # "" THEN BonusGet(get_bonuses(w.st.agents[pilot]), "failure_reduction", 20) ELSE 0,
         LAMBDA failure_reduction :
    LET solar_failure_prob == (SOLAR_PANEL_FAILURE_PROB * (100 - failure_reduction)) \div 100
        water_failure_prob == (200 * (100 - failure_reduction)) \div 100
        mental_break_prob == (100 * (100 - failure_reduction)) \div 100
    IN
    \* solar panel failure
    Bind(Draw(w), LAMBDA a1 :
    Bind(Draw(a1), LAMBDA a2 :
    Bind(IF next_float_lt(a1.g, solar_failure_prob)
         THEN OnState(a2, add_log(modify_resource(w.st, "energy", -(100 * next_int(a2.g, 5, 15))),
                                  "RANDOM EVENT: Solar panel malfunction!", <<>>, next_int(a2.g, 5, 15)))
         ELSE a1, LAMBDA wa :
    \* water recycler failure
    Bind(Draw(wa), LAMBDA b1 :
    Bind(Draw(b1), LAMBDA b2 :
    Bind(IF next_float_lt(b1.g, water_failure_prob)
         THEN OnState(b2, add_log(modify_resource(wa.st, "water", -(100 * next_int(b2.g, 10, 30))),
                                  "RANDOM EVENT: Water recycler failure!", <<>>, next_int(b2.g, 10, 30)))
         ELSE b1, LAMBDA wb :
    \* mental breakdown
    Bind(Draw(wb), LAMBDA c1 :
    Bind(Draw(c1), LAMBDA c2 :
    Bind(alive_agents(wb.st), LAMBDA agents :
    LET agent == agents[next_int(c2.g, 0, Len(agents) - 1) + 1]
        broken == [wb.st EXCEPT !.agents[agent].mental_state = @ - 2000]
    IN  IF next_float_lt(c1.g, mental_break_prob)
        THEN IF Len(agents) > 0
             THEN OnState(c2, add_log(broken, "RANDOM EVENT: mental breakdown", <<agent>>, 0))
             ELSE c1
        ELSE c1)))))))))))

Decision(id, type, title, options, tick_created) ==
    [id |-> id, type |-> type, title |-> title, options |-> options,
     tick_created |-> tick_created, resolved |-> FALSE, chosen_option |-> -1]

\* The id f"decision_{tick}_{n}" is the pair <<tick, n>>.
_generate_decision(w) ==
    Bind(Draw(w), LAMBDA d1 :
    Bind(Draw(d1), LAMBDA d2 :
    Bind(Draw(d2), LAMBDA d3 :
    LET decision_type == DecisionType[next_int(d2.g, 0, Len(DecisionType) - 1) + 1]
        template == DECISION_TEMPLATES[decision_type]
        decision == Decision(<<w.st.tick, next_int(d3.g, 1000, 9999)>>, decision_type,
                             template.title, template.options, w.st.tick)
    IN  IF Len(w.st.pending_decisions) >= MAX_PENDING_DECISIONS THEN w
        ELSE IF ~ next_float_le(d1.g, DECISION_PROB) THEN d1
        ELSE IF decision_type \notin DOMAIN DECISION_TEMPLATES
             THEN [d2 EXCEPT !.exc = "KeyError"]
        ELSE OnState(d3, add_log([w.st EXCEPT !.pending_decisions = Append(@, decision)],
                                 "EMERGENCY", <<decision.title>>, 0)))))

Mission(id, type, template, tick_created) ==
    [id |-> id, type |-> type, title |-> template.title, target_value |-> template.target,
     current_value |-> 0, reward |-> template.reward, status |-> "active",
     tick_created |-> tick_created]

\* A _generate_mission without the test for an active mission.
_generate_mission_eager(w) ==
    Bind(Draw(w), LAMBDA d1 :
    Bind(Draw(d1), LAMBDA d2 :
    Bind(Draw(d2), LAMBDA d3 :
    Bind(Draw(d3), LAMBDA d4 :
    LET mission_type == MissionType[next_int(d2.g, 0, Len(MissionType) - 1) + 1]
        templates == MISSION_TEMPLATES[mission_type]
        template == templates[next_int(d3.g, 0, Len(templates) - 1) + 1]
        mission == Mission(<<w.st.tick, next_int(d4.g, 1000, 9999)>>, mission_type,
                           template, w.st.tick)
    IN  IF Len(w.st.missions) >= MAX_MISSIONS THEN w
        ELSE IF ~ next_float_le(d1.g, MISSION_PROB) THEN d1
        ELSE OnState(d4, add_log([w.st EXCEPT !.missions = Append(@, mission)],
                                 "MISSION ASSIGNED", <<mission.title>>, 0))))))

_generate_mission(w) ==
    Bind(Draw(w), LAMBDA d1 :
    Bind(Draw(d1), LAMBDA d2 :
    Bind(Draw(d2), LAMBDA d3 :
    Bind(Draw(d3), LAMBDA d4 :
    LET mission_type == MissionType[next_int(d2.g, 0, Len(MissionType) - 1) + 1]
        templates == MISSION_TEMPLATES[mission_type]
        template == templates[next_int(d3.g, 0, Len(templates) - 1) + 1]
        mission == Mission(<<w.st.tick, next_int(d4.g, 1000, 9999)>>, mission_type,
                           template, w.st.tick)
    IN  IF Len(w.st.missions) >= MAX_MISSIONS THEN w
        ELSE IF \E i \in 1..Len(w.st.missions) : w.st.missions[i].status = "active" THEN w
        ELSE IF ~ next_float_le(d1.g, MISSION_PROB) THEN d1
        ELSE OnState(d4, add_log([w.st EXCEPT !.missions = Append(@, mission)],
                                 "MISSION ASSIGNED", <<mission.title>>, 0))))))

CountType(actions, type) ==
    Cardinality({i \in 1..Len(actions) : actions[i].type = type})

\* Mission.to_dict() has no "resource" key, so the resource name read by the
\* produce_resources rule is always the default "".
MissionResourceName(mission) == ""

MissionProgress(mission, actions) ==
    CASE mission.type = "produce_resources" ->
            IF MissionResourceName(mission) \in {"oxygen", "water", "energy", "food"}
            THEN 200 ELSE 0
      [] mission.type = "maintain_systems" -> 100 * CountType(actions, REPAIR)
      [] mission.type = "explore" -> 50 * CountType(actions, WORK)
      [] mission.type = "research" -> 50 * CountType(actions, TALK)
      [] OTHER -> 0

RECURSIVE ApplyEffects(_, _, _)
ApplyEffects(st, effects, i) ==
    IF i > Len(effects) THEN st
    ELSE Bind(modify_resource(st, effects[i][1], effects[i][2]),
              LAMBDA s1 : ApplyEffects(s1, effects, i + 1))

RECURSIVE UpdateMissionsFrom(_, _, _)
UpdateMissionsFrom(st, actions, i) ==
    IF i > Len(st.missions) THEN st
    ELSE LET mission == st.missions[i]
         IN  IF mission.status # "active" THEN UpdateMissionsFrom(st, actions, i + 1)
             ELSE
             Bind(mission.current_value + MissionProgress(mission, actions), LAMBDA current_value :
             Bind([st EXCEPT !.missions[i].current_value = current_value], LAMBDA progressed :
             Bind([progressed EXCEPT !.missions[i].status = "completed"], LAMBDA completed :
                 IF current_value >= mission.target_value
                 THEN Bind(add_log(ApplyEffects(completed, mission.reward, 1),
                                   "MISSION COMPLETE", <<mission.title>>, 0),
                           LAMBDA s1 : UpdateMissionsFrom(s1, actions, i + 1))
                 ELSE UpdateMissionsFrom(progressed, actions, i + 1))))

\* An _update_missions without the status test: every mission whose progress
\* is at its target is completed and paid in every tick.
RECURSIVE UpdateMissionsAgainFrom(_, _, _)
UpdateMissionsAgainFrom(st, actions, i) ==
    IF i > Len(st.missions) THEN st
    ELSE LET mission == st.missions[i]
         IN  Bind(mission.current_value + MissionProgress(mission, actions), LAMBDA current_value :
             Bind([st EXCEPT !.missions[i].current_value = current_value], LAMBDA progressed :
             Bind([progressed EXCEPT !.missions[i].status = "completed"], LAMBDA completed :
                 IF current_value >= mission.target_value
                 THEN Bind(add_log(ApplyEffects(completed, mission.reward, 1),
                                   "MISSION COMPLETE", <<mission.title>>, 0),
                           LAMBDA s1 : UpdateMissionsAgainFrom(s1, actions, i + 1))
                 ELSE UpdateMissionsAgainFrom(progressed, actions, i + 1))))

_update_missions_again(st, actions) == UpdateMissionsAgainFrom(st, actions, 1)

_update_missions(st, actions) == UpdateMissionsFrom(st, actions, 1)

UpdateAgent(st, name) ==
    LET agent == st.agents[name]
        medic == _has_specialization(st, name, "medic")
        health_recovery ==
            IF medic THEN (10 * (100 + BonusGet(get_bonuses(agent), "health_bonus", 30))) \div 100
            ELSE 10
        health1 == IF get_resource(st, "food") > 3000 /\ get_resource(st, "oxygen") > 5000
                   THEN Min(10000, agent.health + health_recovery)
                   ELSE agent.health
        raw_damage == (IF get_resource(st, "food") < 2000 THEN 50 ELSE 0)
                      + (IF get_resource(st, "oxygen") < 3000 THEN 30 ELSE 0)
        mental_damage ==
            IF medic
            THEN (raw_damage * (100 - BonusGet(get_bonuses(agent), "mental_bonus", 40))) \div 100
            ELSE raw_damage
        mental1 == Max(0, agent.mental_state - mental_damage)
        updated == [st EXCEPT !.agents[name] =
                        [@ EXCEPT !.health = IF health1 <= 0 THEN 0 ELSE health1,
                                  !.mental_state = mental1]]
    IN  IF health1 <= 0 THEN add_log(updated, "TRAGEDY: has died", <<name>>, 0) ELSE updated

RECURSIVE UpdateAgentsFrom(_, _, _)
UpdateAgentsFrom(st, alive, i) ==
    IF i > Len(alive) THEN st
    ELSE Bind(UpdateAgent(st, alive[i]), LAMBDA s1 : UpdateAgentsFrom(s1, alive, i + 1))

\* The update visiting every actor, dead at the start of the tick or not.
_update_agents_all(st, alive) == UpdateAgentsFrom(st, crew_names, 1)

_update_agents(st, alive) == UpdateAgentsFrom(st, alive, 1)

\* The end of MarsEnvironment.step: the game-over check returns before the
\* generator state is saved into the World State.
StepEnd(w) ==
    IF is_game_over(w.st)
    THEN [w |-> OnState(w, add_log(w.st, "GAME OVER: Colony has failed.", <<>>, 0)),
          game_over |-> TRUE]
    ELSE [w |-> OnState(w, [w.st EXCEPT !.rng_state =
                                <<get_state([seed |-> w.g, initial_seed |-> w.initial_seed])>>]),
          game_over |-> FALSE]

\* The stages of MarsEnvironment.step before _update_missions, from the tick
\* increment to _generate_mission: the World the missions stage starts from,
\* or the World an exception left behind.
step_to_missions(st, gen, actions) ==
    Bind(World([st EXCEPT !.tick = @ + 1], gen, ""), LAMBDA w0 :
    Bind(alive_agents(w0.st), LAMBDA alive :
    Bind(OnState(w0, _consume_resources(w0.st, Len(alive))), LAMBDA w1 :
    Bind(_process_actions(w1, actions), LAMBDA w2 :
    Bind(OnState(w2, _produce_resources(w2.st)), LAMBDA w3 :
    Bind(_check_disasters(w3), LAMBDA w4 :
    Bind(_random_events(w4), LAMBDA w5 :
    Bind(_generate_decision(w5), LAMBDA w6 :
        IF w6.exc # "" THEN w6 ELSE _generate_mission(w6)))))))))

\* MarsEnvironment.step(actions) on World State st with the generator gen.
\* The result is the World (st, g, exc) together with the returned flag; when
\* exc is not "", the exception left the method at that stage and st, g are
\* what the stages before it had written.  alive_agents is the list taken at
\* the start of the tick.
env_step(st, gen, actions) ==
    Bind(alive_agents(st), LAMBDA alive :
    Bind(step_to_missions(st, gen, actions), LAMBDA w7 :
        IF w7.exc # "" THEN [w |-> w7, game_over |-> FALSE]
        ELSE
        Bind(OnState(w7, _update_missions(w7.st, actions)), LAMBDA w8 :
        Bind(OnState(w8, _update_agents(w8.st, alive)), LAMBDA w9 :
            StepEnd(w9)))))

\* MarsEnvironment.resolve_decision on World State st: the first record with
\* the id is the one addressed.
RECURSIVE FindDecision(_, _, _)
FindDecision(st, decision_id, i) ==
    IF i > Len(st.pending_decisions) THEN 0
    ELSE IF st.pending_decisions[i].id = decision_id THEN i
         ELSE FindDecision(st, decision_id, i + 1)

\* A resolve_decision that applies the first option whatever the index.
resolve_decision_first(st, decision_id, option_index) ==
    Bind(FindDecision(st, decision_id, 1), LAMBDA i :
    LET decision == st.pending_decisions[i]
        effects == decision.options[1]
    IN  IF i = 0 THEN [st |-> st, ret |-> "Decision not found"]
        ELSE IF option_index < 0 \/ option_index >= Len(decision.options)
             THEN [st |-> st, ret |-> "Invalid option index"]
        ELSE Bind([st EXCEPT !.pending_decisions[i] =
                       [@ EXCEPT !.resolved = TRUE, !.chosen_option = option_index]],
                  LAMBDA marked :
                  [st |-> add_log(ApplyEffects(marked, effects, 1), "DECISION RESOLVED",
                                  <<decision.title>>, option_index),
                   ret |-> "success"]))

\* A resolve_decision without the lower bound on the index: a negative index
\* counts from the end of the options, as a list index does.
resolve_decision_negative(st, decision_id, option_index) ==
    Bind(FindDecision(st, decision_id, 1), LAMBDA i :
    LET decision == st.pending_decisions[i]
        effects == IF option_index < 0
                   THEN decision.options[Len(decision.options) + option_index + 1]
                   ELSE decision.options[option_index + 1]
    IN  IF i = 0 THEN [st |-> st, ret |-> "Decision not found"]
        ELSE IF option_index >= Len(decision.options)
             THEN [st |-> st, ret |-> "Invalid option index"]
        ELSE Bind([st EXCEPT !.pending_decisions[i] =
                       [@ EXCEPT !.resolved = TRUE, !.chosen_option = option_index]],
                  LAMBDA marked :
                  [st |-> add_log(ApplyEffects(marked, effects, 1), "DECISION RESOLVED",
                                  <<decision.title>>, option_index),
                   ret |-> "success"]))

\* A resolve_decision that takes the resolved emergency off the list.
resolve_decision_remove(st, decision_id, option_index) ==
    Bind(FindDecision(st, decision_id, 1), LAMBDA i :
    LET decision == st.pending_decisions[i]
        effects == decision.options[option_index + 1]
    IN  IF i = 0 THEN [st |-> st, ret |-> "Decision not found"]
        ELSE IF option_index < 0 \/ option_index >= Len(decision.options)
             THEN [st |-> st, ret |-> "Invalid option index"]
        ELSE Bind([st EXCEPT !.pending_decisions =
                       SubSeq(@, 1, i - 1) \o SubSeq(@, i + 1, Len(@))],
                  LAMBDA marked :
                  [st |-> add_log(ApplyEffects(marked, effects, 1), "DECISION RESOLVED",
                                  <<decision.title>>, option_index),
                   ret |-> "success"]))

resolve_decision(st, decision_id, option_index) ==
    Bind(FindDecision(st, decision_id, 1), LAMBDA i :
    LET decision == st.pending_decisions[i]
        effects == decision.options[option_index + 1]
    IN  IF i = 0 THEN [st |-> st, ret |-> "Decision not found"]
        ELSE IF option_index < 0 \/ option_index >= Len(decision.options)
             THEN [st |-> st, ret |-> "Invalid option index"]
        ELSE Bind([st EXCEPT !.pending_decisions[i] =
                       [@ EXCEPT !.resolved = TRUE, !.chosen_option = option_index]],
                  LAMBDA marked :
                  [st |-> add_log(ApplyEffects(marked, effects, 1), "DECISION RESOLVED",
                                  <<decision.title>>, option_index),
                   ret |-> "success"]))

(***************************************************************************)
(* harness/clock.py : VirtualClock                                         *)
(***************************************************************************)
VirtualClock(initial_tick) == [current_tick |-> initial_tick, initial_tick |-> initial_tick]

clock_step(clock, steps) == [clock EXCEPT !.current_tick = @ + steps]

(***************************************************************************)
(* simulation.py : SimulationController                                    *)
(*                                                                         *)
(* Generators are objects: gens is the heap of DeterministicRandom         *)
(* objects and a controller holds the index of the one it uses (rng) and   *)
(* of the one its environment uses (env_rng).  history holds the           *)
(* snapshots; shared is the set of history indices whose entry is the      *)
(* same object as the live state, so that a write to the live state is a   *)
(* write to them too.                                                      *)
(***************************************************************************)
\* seq[i] and seq[:n] of a Python list.
PyIndex(seq, i) == IF i < 0 THEN seq[Len(seq) + i + 1] ELSE seq[i + 1]
PySlice(seq, n) ==
    IF n >= 0 THEN SubSeq(seq, 1, Min(n, Len(seq)))
    ELSE SubSeq(seq, 1, Max(0, Len(seq) + n))

\* Writing the live World State of controller c.
SetLive(c, st) ==
    [c EXCEPT !.state = st,
              !.history = [i \in DOMAIN @ |-> IF i \in c.shared THEN st ELSE @[i]]]

\* A constructor that takes the generator from a module-level singleton: every
\* controller after the first gets the object the first one created.
NewGeneratorShared(gens, seed) ==
    IF gens = <<>>
    THEN [gens |-> <<DeterministicRandom(seed)>>, id |-> 1]
    ELSE [gens |-> gens, id |-> 1]

\* self.rng = DeterministicRandom(seed=seed): a new object on the heap.
NewGenerator(gens, seed) ==
    [gens |-> Append(gens, DeterministicRandom(seed)), id |-> Len(gens) + 1]

\* self.history.append(self.env.state): the snapshot is the live object.
_save_state_to_history_alias(c) ==
    [c EXCEPT !.history = Append(@, c.state), !.shared = @ \cup {Len(c.history) + 1}]

\* self.history.append(copy.deepcopy(self.env.state))
_save_state_to_history(c) == [c EXCEPT !.history = Append(@, c.state)]

\* A constructor that stores the genesis state without a generator checkpoint.
ControllerBare(gens, seed) ==
    Bind(NewGenerator(gens, seed), LAMBDA new :
    Bind([seed |-> seed, clock |-> VirtualClock(0), rng |-> new.id, env_rng |-> new.id,
          state |-> create_initial_state, history |-> <<>>, shared |-> {}], LAMBDA c :
        [c |-> _save_state_to_history(c), gens |-> new.gens]))

\* SimulationController.__init__(seed)
Controller(gens, seed) ==
    Bind(NewGenerator(gens, seed), LAMBDA new :
    Bind([create_initial_state EXCEPT !.rng_state = <<get_state(new.gens[new.id])>>], LAMBDA state :
    Bind([seed |-> seed, clock |-> VirtualClock(0), rng |-> new.id, env_rng |-> new.id,
          state |-> state, history |-> <<>>, shared |-> {}], LAMBDA c :
        [c |-> _save_state_to_history(c), gens |-> new.gens])))

\* SimulationController.step with the actions the brains returned.
step(c, gens, actions) ==
    Bind(env_step(c.state, gens[c.env_rng], actions), LAMBDA r :
    Bind([gens EXCEPT ![c.env_rng].seed = r.w.g], LAMBDA gens1 :
        IF r.w.exc # ""
        THEN [c |-> SetLive(c, r.w.st), gens |-> gens1, ret |-> "raise"]
        ELSE
        Bind(clock_step(c.clock, 1), LAMBDA clock :
        Bind([SetLive(c, r.w.st) EXCEPT !.clock = clock], LAMBDA c1 :
        Bind(SetLive(c1, [r.w.st EXCEPT !.tick = clock.current_tick]), LAMBDA c2 :
            [c |-> _save_state_to_history(c2), gens |-> gens1,
             ret |-> IF r.game_over THEN "True" ELSE "False"])))))

\* A range check without the lower bound.
TargetBelowLength(c, target_tick) == target_tick < Len(c.history)

\* The range check of time_travel.
TargetInHistory(c, target_tick) == target_tick >= 0 /\ target_tick < Len(c.history)

\* self.env.state = copy.deepcopy(self.history[target_tick - 1])
RestoreStateBefore(c, target_tick) ==
    [c EXCEPT !.state = PyIndex(c.history, target_tick - 1), !.shared = {}]

\* self.env.state = copy.deepcopy(self.history[target_tick]): the live state
\* is a new object, shared with no snapshot.
RestoreState(c, target_tick) ==
    [c EXCEPT !.state = PyIndex(c.history, target_tick), !.shared = {}]

\* self.history = self.history[:target_tick]
TruncateHistoryShort(c, target_tick) ==
    LET kept == PySlice(c.history, target_tick)
    IN  [c EXCEPT !.history = kept, !.shared = {i \in @ : i <= Len(kept)}]

\* self.history = self.history[:target_tick + 1]
TruncateHistory(c, target_tick) ==
    LET kept == PySlice(c.history, target_tick + 1)
    IN  [c EXCEPT !.history = kept, !.shared = {i \in @ : i <= Len(kept)}]

time_travel(c, gens, target_tick) ==
    IF ~ TargetInHistory(c, target_tick)
    THEN [c |-> c, gens |-> gens, ret |-> "False"]
    ELSE
    Bind(PyIndex(c.history, target_tick), LAMBDA historical_state :
    Bind([RestoreState(c, target_tick) EXCEPT !.clock = VirtualClock(target_tick)], LAMBDA c1 :
        IF Len(historical_state.rng_state) > 0
        THEN Bind([gens EXCEPT ![c.rng] = set_state(@, historical_state.rng_state[1])],
                  LAMBDA restored :
                  IF set_state_raises(historical_state.rng_state[1])
                  THEN [c |-> c1, gens |-> restored, ret |-> "raise"]
                  ELSE [c |-> TruncateHistory(c1, target_tick), gens |-> restored, ret |-> "True"])
        ELSE Bind(NewGenerator(gens, c.seed + target_tick), LAMBDA new :
                  [c |-> TruncateHistory([c1 EXCEPT !.rng = new.id], target_tick),
                   gens |-> new.gens, ret |-> "True"])))

(***************************************************************************)
(* The inputs: seeds, the action batches the five brains return for a      *)
(* tick, rewind targets, emergency ids and option indices.                 *)
(***************************************************************************)
Seeds == {184514}
TwinSeeds == {184514, 41, 13}

BatchSabotage ==
    [i \in 1..5 |-> AgentAction(SABOTAGE, "solar_panel", <<>>)]

BatchMixed ==
    << AgentAction(WORK, "greenhouse", <<"Botanist Schmidt">>),
       AgentAction(REPAIR, "oxygen_generator", <<"Engineer Tanaka">>),
       AgentAction(EAT, "storage", <<"Dr. Rodriguez">>),
       AgentAction(TALK, "habitat", <<"commander chen", " and ", "pilot okafor">>),
       AgentAction(REST, "habitat", <<"Pilot Okafor">>) >>

Batches == {BatchSabotage, BatchMixed}

Targets == -1..(MaxTick + 1)

UnknownId == <<0, 0>>
OptionIndices == -1..3

(***************************************************************************)
(* State.                                                                  *)
(*   ctl, twin   two SimulationController objects built with the same seed *)
(*   gens        the heap of generator objects                             *)
(*   last        the last call, what it returned, the tick it rewound to   *)
(*               (-1 if it did not rewind) and whether the call before it  *)
(*               was a successful time_travel (for a time_travel: one to   *)
(*               the same tick)                                            *)
(* History variables, which no operation of the program reads:             *)
(*   script      the batches given to ctl, for twin to be given the same   *)
(*   twin_calls  how many of them twin has been given                      *)
(*   root        the target of the last successful time_travel, -1 if none *)
(*   calls       the batches given to ctl since its last snapshot          *)
(*   acts        per snapshot of ctl, the batches that led to it from the  *)
(*               snapshot before (more than one when a step raised)        *)
(*   replay      the snapshots and acts that the last time_travel cut off  *)
(* The parts of the program on their own:                                  *)
(*   bench       DeterministicRandom objects driven call by call           *)
(*   world       a MarsEnvironment (World State and generator) driven      *)
(*               without a controller, with the name and the value of a    *)
(*               get_resource call when that was the last call; or a       *)
(*               VirtualClock with the text it was last serialized to      *)
(***************************************************************************)
VARIABLES ctl, twin, gens, last, script, twin_calls, root, calls, acts, replay,
          bench, world

vars == <<ctl, twin, gens, last, script, twin_calls, root, calls, acts, replay,
          bench, world>>

\* The controller specifications use neither the generator bench nor the
\* engine on its own.
NoBench == <<>>
NoWorld == <<>>

NoReplay == [valid |-> FALSE, hist |-> <<>>, acts |-> <<>>, rooted |-> FALSE, root |-> -1]

Last(op, ret, arg, rew) == [op |-> op, ret |-> ret, arg |-> arg, rew |-> rew]

JustRewound == IF last.op = "time_travel" /\ last.ret = "True" THEN 1 ELSE 0

\* Two controllers constructed one after the other with the same seed.
Construct(seed) ==
    \E a \in {Controller(<<>>, seed)} :
    \E b \in {Controller(a.gens, seed)} :
        /\ ctl = a.c
        /\ twin = b.c
        /\ gens = b.gens
        /\ last = Last("init", "none", -1, 0)
        /\ script = <<>>
        /\ twin_calls = 0
        /\ root = -1
        /\ calls = <<>>
        /\ acts = << <<>> >>
        /\ replay = NoReplay
        /\ bench = NoBench
        /\ world = NoWorld

Init == \E seed \in Seeds : Construct(seed)

\* controller.step() with the batch of actions as the brains' answer.
Advance(batch) ==
    /\ ctl.clock.current_tick < MaxTick
    /\ ctl.state.tick < MaxTick
    /\ \E r \in {step(ctl, gens, batch)} :
           /\ ctl' = r.c
           /\ gens' = r.gens
           /\ last' = Last("step", r.ret, -1, JustRewound)

\* controller.time_travel(target_tick)
Rewind(target_tick) ==
    \E r \in {time_travel(ctl, gens, target_tick)} :
        /\ ctl' = r.c
        /\ gens' = r.gens
        /\ last' = Last("time_travel", r.ret,
                        IF r.ret = "True" THEN target_tick ELSE -1,
                        IF last.arg = target_tick THEN JustRewound ELSE 0)

(***************************************************************************)
(* The controller as the server drives it: step, time_travel and the       *)
(* resolution of an emergency on the live state.                           *)
(***************************************************************************)
StepAction(batch) ==
    /\ Advance(batch)
    /\ UNCHANGED <<twin, script, twin_calls, root, calls, acts, replay, bench, world>>

TimeTravelAction(target_tick) ==
    /\ Rewind(target_tick)
    /\ UNCHANGED <<twin, script, twin_calls, root, calls, acts, replay, bench, world>>

Resolutions(st) ==
    Cardinality({i \in 1..Len(st.logs) : st.logs[i].m = "DECISION RESOLVED"})

PendingIds(st) == {st.pending_decisions[i].id : i \in 1..Len(st.pending_decisions)}

\* POST /api/decision/resolve: env.resolve_decision on the live state.
ResolveAction(decision_id, option_index) ==
    /\ Resolutions(ctl.state) < MaxResolves
    /\ \E r \in {resolve_decision(ctl.state, decision_id, option_index)} :
           /\ ctl' = SetLive(ctl, r.st)
           /\ last' = Last("resolve_decision", r.ret, -1, JustRewound)
    /\ UNCHANGED <<twin, gens, script, twin_calls, root, calls, acts, replay, bench, world>>

Next ==
    \/ \E batch \in Batches : StepAction(batch)
    \/ \E target_tick \in Targets : TimeTravelAction(target_tick)
    \/ \E decision_id \in PendingIds(ctl.state) \cup {UnknownId}, option_index \in OptionIndices :
           ResolveAction(decision_id, option_index)

Spec == Init /\ [][Next]_vars

(***************************************************************************)
(* Rewinding and replaying: step and time_travel only, with the calls      *)
(* recorded.  When a time_travel cuts snapshots off, they are kept in      *)
(* replay together with the batches that produced them, for as long as     *)
(* the controller is given the same batches again.                         *)
(***************************************************************************)
RecordedStep(batch) ==
    /\ Advance(batch)
    /\ LET entry == Append(calls, batch)
           n == Len(ctl.history) + 1
       IN  IF last'.ret = "raise"
           THEN /\ calls' = entry
                /\ UNCHANGED <<acts, replay>>
           ELSE /\ calls' = <<>>
                /\ acts' = Append(acts, entry)
                /\ replay' = IF /\ replay.valid
                                /\ n <= Len(replay.hist)
                                /\ replay.acts[n] = entry
                             THEN replay ELSE NoReplay
    /\ UNCHANGED <<twin, script, twin_calls, root, bench, world>>

RecordedTravel(target_tick) ==
    /\ Rewind(target_tick)
    /\ IF last'.ret = "True"
       THEN /\ root' = target_tick
            /\ calls' = <<>>
            /\ acts' = SubSeq(acts, 1, target_tick + 1)
            /\ replay' =
                 IF Len(ctl.history) > target_tick + 1
                 THEN [valid |-> TRUE, hist |-> ctl.history, acts |-> acts,
                       rooted |-> (root = target_tick), root |-> target_tick]
                 ELSE IF replay.valid /\ replay.root = target_tick
                      THEN replay ELSE NoReplay
       ELSE UNCHANGED <<root, calls, acts, replay>>
    /\ UNCHANGED <<twin, script, twin_calls, bench, world>>

ReplayNext ==
    \/ \E batch \in Batches : RecordedStep(batch)
    \/ \E target_tick \in Targets : RecordedTravel(target_tick)

ReplaySpec == Init /\ [][ReplayNext]_vars

(***************************************************************************)
(* Two controllers with the same seed, given the same batches: ctl leads   *)
(* and records the batches, twin follows at its own pace.                  *)
(***************************************************************************)
LeadStep(batch) ==
    /\ Advance(batch)
    /\ script' = Append(script, batch)
    /\ UNCHANGED <<twin, twin_calls, root, calls, acts, replay, bench, world>>

FollowStep ==
    /\ twin_calls < Len(script)
    /\ \E r \in {step(twin, gens, script[twin_calls + 1])} :
           /\ twin' = r.c
           /\ gens' = r.gens
           /\ last' = Last("twin_step", r.ret, -1, 0)
    /\ twin_calls' = twin_calls + 1
    /\ UNCHANGED <<ctl, script, root, calls, acts, replay, bench, world>>

TwinNext ==
    \/ \E batch \in Batches : LeadStep(batch)
    \/ FollowStep

TwinInit == \E seed \in TwinSeeds : Construct(seed)

TwinSpec == TwinInit /\ [][TwinNext]_vars

(***************************************************************************)
(* Properties.                                                             *)
(***************************************************************************)
AgentHealth(st) == [n \in DOMAIN st.agents |-> st.agents[n].health]

\* C1: two controllers constructed independently with the same seed and
\* advanced the same number of times with the same batches of actions have
\* identical resources, identical actor health and the same tick.
Determinism ==
    twin_calls = Len(script) =>
        /\ twin.state.resources = ctl.state.resources
        /\ AgentHealth(twin.state) = AgentHealth(ctl.state)
        /\ twin.state.tick = ctl.state.tick
        /\ twin.clock.current_tick = ctl.clock.current_tick

\* Both controllers have been advanced three times or more with the same
\* batches, and the resources are no longer those of the genesis state.
DeterminismWitness ==
    /\ twin_calls = Len(script)
    /\ Len(script) >= 3
    /\ last.op = "twin_step"
    /\ ctl.state.resources # create_initial_state.resources

\* C2: a time_travel(T) with 0 <= T < snapshot count returns True, leaves
\* exactly T+1 snapshots, sets the clock tick and the tick of the live World
\* State to T, and makes the live World State equal to the snapshot that was
\* stored at index T, which stays in the list as it was.
RewindRestores ==
    [][\A T \in Targets :
          (0 <= T /\ T < Len(ctl.history) /\ last'.op = "time_travel" /\ TimeTravelAction(T)) =>
              /\ last'.ret = "True"
              /\ Len(ctl'.history) = T + 1
              /\ ctl'.clock.current_tick = T
              /\ ctl'.state.tick = T
              /\ ctl'.state = ctl.history[T + 1]
              /\ ctl'.history[T + 1] = ctl.history[T + 1]
      ]_vars

\* A time_travel to tick 2 or later has succeeded and the live state is the
\* last of the snapshots that are left.
RewindRestoresWitness ==
    /\ last.op = "time_travel"
    /\ last.ret = "True"
    /\ last.arg >= 2
    /\ last.rew = 0
    /\ Len(ctl.history) = last.arg + 1
    /\ ctl.state = ctl.history[Len(ctl.history)]

\* What C3 compares of a World State: tick, resources, actor health and the
\* collapse flag.
Observed(st) ==
    [tick |-> st.tick, resources |-> st.resources, health |-> AgentHealth(st),
     collapsed |-> is_game_over(st)]

\* C3: after a time_travel(T) that cut snapshots off, advancing with the same
\* batches as before produces, at every tick up to the one that was reached
\* before the rewind, the same tick, resources, actor health and collapse flag
\* as the snapshot that was cut off, for every T.
ReplayReproduces ==
    replay.valid =>
        \A i \in (replay.root + 2)..Len(ctl.history) :
            Observed(ctl.history[i]) = Observed(replay.hist[i])

\* C4: a time_travel(T) followed by k advances, then again time_travel(T)
\* followed by k advances with the same batches, produces the same World
\* State at every tick T+1 .. T+k both times.
BranchReproducible ==
    (replay.valid /\ replay.rooted) =>
        \A i \in (replay.root + 2)..Len(ctl.history) :
            ctl.history[i] = replay.hist[i]

\* A branch of two or more advances that started with a time_travel(T) has
\* been cut off by a second time_travel(T) and advanced again with the same
\* batches.
BranchReproducibleWitness ==
    /\ replay.valid
    /\ replay.rooted
    /\ Len(ctl.history) >= replay.root + 3
    /\ last.op = "step"

\* C5: a time_travel(T) called right after a successful time_travel(T)
\* succeeds and leaves the live World State, the state of the generator and
\* the snapshot list as the first call left them.
RewindIdempotent ==
    [][\A T \in Targets :
          (last.op = "time_travel" /\ last.ret = "True" /\ last.arg = T /\ TimeTravelAction(T)) =>
              /\ last'.ret = "True"
              /\ ctl'.state = ctl.state
              /\ get_state(gens'[ctl'.rng]) = get_state(gens[ctl.rng])
              /\ get_state(gens'[ctl'.env_rng]) = get_state(gens[ctl.env_rng])
              /\ ctl'.history = ctl.history
      ]_vars

\* A time_travel to tick 1 or later has been called twice in a row.
RewindIdempotentWitness ==
    /\ last.op = "time_travel"
    /\ last.rew = 1
    /\ last.arg >= 1

\* C6: a time_travel(T) with T < 0 or T >= snapshot count returns False and
\* leaves the live World State, the generators, the clock and the snapshot
\* list unchanged.
RewindOutOfRange ==
    [][\A T \in Targets :
          ((T < 0 \/ T >= Len(ctl.history)) /\ last'.op = "time_travel" /\ TimeTravelAction(T)) =>
              /\ last'.ret = "False"
              /\ ctl'.state = ctl.state
              /\ gens' = gens
              /\ ctl'.clock = ctl.clock
              /\ ctl'.history = ctl.history
      ]_vars

\* A time_travel has returned False on a controller that has advanced.
RewindOutOfRangeWitness ==
    /\ last.op = "time_travel"
    /\ last.ret = "False"
    /\ Len(ctl.history) >= 2

\* C7: the snapshot list is non-empty, its length is the live tick + 1, the
\* tick of the live World State is the tick of the clock, and the snapshot at
\* index i has tick i.
SnapshotListShape ==
    /\ Len(ctl.history) >= 1
    /\ Len(ctl.history) = ctl.state.tick + 1
    /\ ctl.state.tick = ctl.clock.current_tick
    /\ \A i \in 1..Len(ctl.history) : ctl.history[i].tick = i - 1

\* C8: no step, resolve_decision or time_travel changes a snapshot that
\* stays in the list.
SnapshotsImmutable ==
    [][\A i \in 1..Min(Len(ctl.history), Len(ctl'.history)) :
          ctl'.history[i] = ctl.history[i]]_vars

\* The live state has been changed by the call that followed a successful
\* time_travel and is no longer the snapshot it was restored from.
SnapshotsImmutableWitness ==
    /\ last.op \in {"step", "resolve_decision"}
    /\ last.rew = 1
    /\ \E i \in 1..Len(ctl.history) :
          /\ ctl.history[i].tick = ctl.clock.initial_tick
          /\ ctl.history[i] # ctl.state

\* C9: after every step that returns, whether it reports collapse or not,
\* the rng_state of the World State is the state of the engine's generator.
CheckpointCurrent ==
    (last.op = "step" /\ last.ret \in {"True", "False"}) =>
        ctl.state.rng_state = <<get_state(gens[ctl.env_rng])>>

\* C10: a step that raises leaves the live World State (tick, resources,
\* actors, log) and the snapshot list as they were before the call.
TickAllOrNothing ==
    [][\A batch \in Batches :
          (last'.op = "step" /\ last'.ret = "raise" /\ StepAction(batch)) =>
              /\ ctl'.state.tick = ctl.state.tick
              /\ ctl'.state.resources = ctl.state.resources
              /\ ctl'.state.agents = ctl.state.agents
              /\ ctl'.state.logs = ctl.state.logs
              /\ ctl'.history = ctl.history
      ]_vars

(***************************************************************************)
(* The generator on its own: an object g that is drawn from, captured      *)
(* with get_state, and an object h that is restored with set_state and     *)
(* then given the calls g was given after the capture.                     *)
(*   bench.g, bench.h   the two DeterministicRandom objects                *)
(*   bench.cap          the last state captured from g (<<>> if none)      *)
(*   bench.outs         the calls made on g since the capture, with what   *)
(*                      they returned                                      *)
(*   bench.houts        the same for h since it was restored from cap      *)
(*   bench.synced       h was restored from cap and drawn from only by     *)
(*                      repeating the calls of outs                        *)
(*   bench.res          the call last made and what it returned            *)
(*   bench.draws        the number of calls made on g                      *)
(***************************************************************************)
MaxDraws == 3

BenchSeeds == {42, 184514}

\* The sequences handed to choice.
ChoiceSeqs == << <<>>, MissionType, DecisionType >>

Call(m, a) == [m |-> m, a |-> a]

Calls ==
    {Call("next_int", <<0, 3>>), Call("next_int", <<5, 15>>), Call("next_int", <<3, 2>>),
     Call("next_raw", <<>>), Call("next_float", <<>>),
     Call("choice", <<1>>), Call("choice", <<2>>), Call("choice", <<3>>)}

Invoke(gen, call) ==
    CASE call.m = "next_int" -> gen_next_int(gen, call.a[1], call.a[2])
      [] call.m = "next_raw" -> gen_next_raw(gen)
      [] call.m = "next_float" -> gen_next_float(gen)
      [] call.m = "choice" -> gen_choice(gen, ChoiceSeqs[call.a[1]])

Result(call, r) == [call |-> call, ret |-> r.ret, exc |-> r.exc]

\* Serialized states written by a build with other constants.
ForeignStates ==
    {[seed |-> 7, initial_seed |-> 7, modulus |-> _MODULUS,
      multiplier |-> _MULTIPLIER, increment |-> 99],
     [seed |-> 7, initial_seed |-> 3, modulus |-> <<1, 0>>,
      multiplier |-> _MULTIPLIER, increment |-> _INCREMENT],
     [seed |-> 42, initial_seed |-> 42, modulus |-> _MODULUS,
      multiplier |-> 69069, increment |-> _INCREMENT]}

\* No controller is constructed.
NoControllers ==
    /\ ctl = <<>>
    /\ twin = <<>>
    /\ gens = <<>>
    /\ script = <<>>
    /\ twin_calls = 0
    /\ root = -1
    /\ calls = <<>>
    /\ acts = <<>>
    /\ replay = NoReplay

ControllersUnchanged ==
    UNCHANGED <<ctl, twin, gens, script, twin_calls, root, calls, acts, replay>>

\* g = DeterministicRandom(seed), h = DeterministicRandom(other)
BenchInit ==
    /\ NoControllers
    /\ world = NoWorld
    /\ last = Last("init", "none", -1, 0)
    /\ \E seed \in BenchSeeds :
       \E other \in BenchSeeds \cup {lcg(seed)} :
           bench = [g |-> DeterministicRandom(seed), h |-> DeterministicRandom(other),
                    cap |-> <<>>, outs |-> <<>>, houts |-> <<>>, synced |-> FALSE,
                    res |-> Result(Call("none", <<>>), Raised(<<>>, "")), draws |-> 0]

Outcome(r) == IF r.exc = "" THEN "returned" ELSE "raise"

\* One call of next_int, next_float or choice on g.
BenchDraw(call) ==
    /\ bench.draws < MaxDraws
    /\ \E r \in {Invoke(bench.g, call)} :
           /\ bench' = [bench EXCEPT !.g = r.gen,
                                     !.outs = IF bench.cap # <<>>
                                              THEN Append(@, Result(call, r)) ELSE @,
                                     !.res = Result(call, r),
                                     !.draws = @ + 1]
           /\ last' = Last("draw", Outcome(r), -1, 0)
    /\ world' = world
    /\ ControllersUnchanged

\* cap = g.get_state()
BenchCapture ==
    /\ bench' = [bench EXCEPT !.cap = <<get_state(bench.g)>>, !.outs = <<>>,
                              !.houts = <<>>, !.synced = FALSE,
                              !.res = Result(Call("get_state", <<>>), Raised(<<>>, ""))]
    /\ last' = Last("get_state", "returned", -1, 0)
    /\ world' = world
    /\ ControllersUnchanged

\* h.set_state(s) with the captured state or a foreign one.
BenchRestore(s) ==
    /\ bench' = [bench EXCEPT !.h = set_state(@, s),
                              !.houts = <<>>,
                              !.synced = (bench.cap = <<s>> /\ ~ set_state_raises(s)),
                              !.res = Result(Call("set_state", <<>>), Raised(<<>>, ""))]
    /\ last' = Last("set_state", IF set_state_raises(s) THEN "raise" ELSE "returned", -1, 0)
    /\ world' = world
    /\ ControllersUnchanged

\* h is given the next of the calls g was given after the capture.
BenchFollow ==
    /\ bench.synced
    /\ Len(bench.houts) < Len(bench.outs)
    /\ \E call \in {bench.outs[Len(bench.houts) + 1].call} :
       \E r \in {Invoke(bench.h, call)} :
           /\ bench' = [bench EXCEPT !.h = r.gen,
                                     !.houts = Append(@, Result(call, r)),
                                     !.res = Result(call, r)]
           /\ last' = Last("follow", Outcome(r), -1, 0)
    /\ world' = world
    /\ ControllersUnchanged

BenchNext ==
    \/ \E call \in Calls : BenchDraw(call)
    \/ BenchCapture
    \/ \E s \in {bench.cap[i] : i \in 1..Len(bench.cap)} \cup ForeignStates : BenchRestore(s)
    \/ BenchFollow

BenchSpec == BenchInit /\ [][BenchNext]_vars

InRange(seed) == seed >= 0 /\ seed \div Limb < HalfLimb

\* C15: a generator restored with set_state(get_state(g)) has the state that
\* was captured and, given the calls g was given after the capture (however
\* many g had been given before it, and however many of them g has already
\* answered when h is restored), returns what g returned; and two generators
\* with equal accumulators return the same value for every call and are left
\* with equal accumulators.
GeneratorRoundTrip ==
    /\ (bench.synced /\ bench.houts = <<>>) => get_state(bench.h) = bench.cap[1]
    /\ bench.synced => \A i \in 1..Len(bench.houts) : bench.houts[i] = bench.outs[i]
    /\ bench.g.seed = bench.h.seed =>
           \A call \in Calls :
               \E a \in {Invoke(bench.g, call)} :
               \E b \in {Invoke(bench.h, call)} :
                   a.ret = b.ret /\ a.exc = b.exc /\ a.gen.seed = b.gen.seed

\* g was captured after it had been drawn from, went on to answer two calls
\* or more, and h, restored from the capture, has answered all of them.
GeneratorRoundTripWitness ==
    /\ last.op = "follow"
    /\ bench.synced
    /\ Len(bench.houts) >= 2
    /\ Len(bench.houts) = Len(bench.outs)
    /\ bench.cap[1].seed # bench.cap[1].initial_seed
    /\ bench.g.seed = bench.h.seed

\* C16: a call of next_int, next_float or choice that returns has advanced
\* the accumulator by one step of the LCG, the accumulator is in [0, 2^31),
\* next_int(min, max) returned an integer in [min, max], next_float a value in
\* [0, 1) and choice an element of its sequence.
DrawAdvancesOnce ==
    [][(last'.op = "draw" /\ last'.ret = "returned") =>
          /\ bench'.g.seed = lcg(bench.g.seed)
          /\ InRange(bench'.g.seed)
          /\ bench'.g.initial_seed = bench.g.initial_seed
          /\ LET res == bench'.res
                 seq == ChoiceSeqs[res.call.a[1]]
             IN  /\ res.call.m = "next_int" =>
                        res.call.a[1] <= res.ret[1] /\ res.ret[1] <= res.call.a[2]
                 /\ res.call.m = "next_float" => InRange(res.ret[1])
                 /\ res.call.m = "choice" => \E i \in 1..Len(seq) : seq[i] = res.ret[1]
      ]_vars

\* The second call or a later one on g was a choice, and it returned.
DrawAdvancesOnceWitness ==
    /\ last.op = "draw"
    /\ last.ret = "returned"
    /\ bench.res.call.m = "choice"
    /\ bench.draws >= 2

\* C17: set_state with a state whose modulus, multiplier or increment is not
\* the running constant raises and leaves the accumulator and the initial
\* seed of the generator as they were.
RestoreFailsClean ==
    [][\A s \in ForeignStates :
          BenchRestore(s) => (last'.ret = "raise" /\ bench'.h = bench.h)]_vars

(***************************************************************************)
(* The engine on its own: a MarsEnvironment that is stepped, whose World   *)
(* State is modified through modify_resource and whose emergencies are     *)
(* resolved, without a controller.                                         *)
(*   world.env.st    the World State of the environment                    *)
(*   world.env.gen   its DeterministicRandom object                        *)
(*   world.ops       the number of calls made so far                       *)
(***************************************************************************)
MaxOps == 3

EngineSeeds == {39}

\* MarsEnvironment.__init__(state, rng)
MarsEnvironment(st, gen) ==
    [st |-> IF st.rng_state = <<>> THEN [st EXCEPT !.rng_state = <<get_state(gen)>>] ELSE st,
     gen |-> gen]

\* env.step(actions): the environment after the call and what the call
\* returned ("raise" when an exception left it).
EnvStep(env, actions) ==
    Bind(env_step(env.st, env.gen, actions), LAMBDA r :
        [env |-> [st |-> r.w.st, gen |-> [env.gen EXCEPT !.seed = r.w.g]],
         ret |-> IF r.w.exc # "" THEN "raise"
                 ELSE IF r.game_over THEN "True" ELSE "False"])

\* n steps in which no action is submitted.
RECURSIVE RunIdle(_, _)
RunIdle(env, n) ==
    IF n = 0 THEN env
    ELSE Bind(EnvStep(env, <<>>), LAMBDA r : RunIdle(r.env, n - 1))

\* The environment of a new colony.
Genesis(seed) == MarsEnvironment(create_initial_state, DeterministicRandom(seed))

\* Starvation takes 5.0 health per tick from the 100.0 an actor starts with:
\* after this many ticks without food every actor is one such tick from death.
StarveTicks == (Agent("", "").health \div 500) - 1

\* The colony after its food store was emptied and StarveTicks ticks went by.
Starved(seed) ==
    Bind(Genesis(seed), LAMBDA env :
    Bind([env EXCEPT !.st = modify_resource(@, "food", -60000)], LAMBDA emptied :
        RunIdle(emptied, StarveTicks)))

BatchEat ==
    << AgentAction(EAT, "storage", <<"Dr. Rodriguez">>),
       AgentAction(EAT, "storage", <<"Pilot Okafor">>) >>

EngineBatches == {<<>>, BatchEat, BatchMixed}

\* Arguments of modify_resource: a core resource, one the state has no entry
\* for, and deltas that empty a store, leave it and refill it.
ModNames == {"food", "fuel"}
ModDeltas == {-60000, 0, 1000}

EngineOptions == {-1, 0, 2, 3}

EngineInit ==
    /\ NoControllers
    /\ bench = NoBench
    /\ last = Last("init", "none", -1, 0)
    /\ \E seed \in EngineSeeds :
       \E env \in {Genesis(seed), Starved(seed)} :
           world = [env |-> env, ops |-> 0]

EngineStep(batch) ==
    /\ world.ops < MaxOps
    /\ \E r \in {EnvStep(world.env, batch)} :
           /\ world' = [env |-> r.env, ops |-> world.ops + 1]
           /\ last' = Last("env_step", r.ret, -1, 0)
    /\ bench' = bench
    /\ ControllersUnchanged

EngineModify(name, delta) ==
    /\ world.ops < MaxOps
    /\ \E st \in {modify_resource(world.env.st, name, delta)} :
           /\ world' = [env |-> [world.env EXCEPT !.st = st], ops |-> world.ops + 1]
           /\ last' = Last("modify_resource", "None", -1, 0)
    /\ bench' = bench
    /\ ControllersUnchanged

\* A lookup with self.resources.setdefault(resource_name, 0.0): an unknown
\* name gets an entry.
get_resource_setdefault(st, name) ==
    [st |-> IF name \in DOMAIN st.resources THEN st
            ELSE [st EXCEPT !.resources = (name :> 0) @@ @],
     ret |-> get_resource(st, name)]

\* The call state.get_resource(name): the World State after it and the
\* value returned.
get_resource_call(st, name) == [st |-> st, ret |-> get_resource(st, name)]

EngineGet(name) ==
    /\ world.ops < MaxOps
    /\ \E r \in {get_resource_call(world.env.st, name)} :
           /\ world' = [env |-> [world.env EXCEPT !.st = r.st], ops |-> world.ops + 1,
                        name |-> name, value |-> r.ret]
           /\ last' = Last("get_resource", "value", -1, 0)
    /\ bench' = bench
    /\ ControllersUnchanged

EngineResolve(decision_id, option_index) ==
    /\ world.ops < MaxOps
    /\ \E r \in {resolve_decision(world.env.st, decision_id, option_index)} :
           /\ world' = [env |-> [world.env EXCEPT !.st = r.st], ops |-> world.ops + 1]
           /\ last' = Last("env_resolve", r.ret, -1, 0)
    /\ bench' = bench
    /\ ControllersUnchanged

EngineNext ==
    \/ \E batch \in EngineBatches : EngineStep(batch)
    \/ \E name \in ModNames, delta \in ModDeltas : EngineModify(name, delta)
    \/ \E name \in ModNames : EngineGet(name)
    \/ \E decision_id \in PendingIds(world.env.st) \cup {UnknownId}, option_index \in EngineOptions :
           EngineResolve(decision_id, option_index)

EngineSpec == EngineInit /\ [][EngineNext]_vars

CoreResources == {"oxygen", "water", "energy", "food"}

Depleted(st) == {r \in CoreResources : st.resources[r] = 0}

Living(st) == {n \in DOMAIN st.agents : st.agents[n].health > 0}

\* C11: after any sequence of modify_resource calls, engine steps and
\* resolutions of emergencies from the genesis state, every resource of the
\* World State is >= 0.
ResourceFloor ==
    \A r \in DOMAIN world.env.st.resources : world.env.st.resources[r] >= 0

\* modify_resource has been called with a delta that is not positive for a
\* resource the state had no entry for, the food store is empty, and a step
\* has consumed from the stores after that.
ResourceFloorWitness ==
    /\ last.op = "env_step"
    /\ world.ops = MaxOps
    /\ world.env.st.resources["food"] = 0
    /\ "fuel" \in DOMAIN world.env.st.resources
    /\ world.env.st.resources["fuel"] = 0

\* C12: is_game_over() is true exactly when one of oxygen, water, energy and
\* food is at 0 or no actor has health > 0, and the flag a step returns is
\* is_game_over() of the World State the step leaves.
CollapseFlag ==
    /\ is_game_over(world.env.st) <=>
           (Depleted(world.env.st) # {} \/ Living(world.env.st) = {})
    /\ (last.op = "env_step" /\ last.ret # "raise") =>
           ((last.ret = "True") <=> is_game_over(world.env.st))

\* A step in which the last living actors died has returned True while no
\* resource is at 0.
CollapseFlagWitness ==
    /\ last.op = "env_step"
    /\ last.ret = "True"
    /\ Depleted(world.env.st) = {}
    /\ Living(world.env.st) = {}

\* C14: an actor whose health is 0 keeps health 0 through every engine step,
\* whatever actions are submitted, through every resolution of an emergency
\* and every modify_resource.
DeathOneWay ==
    [][\A n \in AgentNames :
          world.env.st.agents[n].health = 0 => world'.env.st.agents[n].health = 0]_vars

RECURSIVE DeltasFrom(_, _, _)
DeltasFrom(resources, effects, k) ==
    IF k > Len(effects) THEN resources
    ELSE DeltasFrom([resources EXCEPT ![effects[k][1]] = Max(0, @ + effects[k][2])],
                    effects, k + 1)

\* C18: resolve_decision(id, i) with a known id and 0 <= i < number of
\* options applies the deltas of option i, each clamped at 0, sets resolved and
\* chosen_option = i on that emergency, appends a resolution entry as the last
\* entry of the log, and leaves the tick, the actors, the generator, the
\* missions and every other emergency as they were.
ResolveApplies ==
    [][\A decision_id \in PendingIds(world.env.st), option_index \in EngineOptions :
          (/\ last'.op = "env_resolve"
           /\ 0 <= option_index
           /\ option_index < Len(world.env.st.pending_decisions[
                                     FindDecision(world.env.st, decision_id, 1)].options)
           /\ EngineResolve(decision_id, option_index)) =>
              LET st == world.env.st
                  st2 == world'.env.st
                  i == FindDecision(st, decision_id, 1)
                  decision == st.pending_decisions[i]
              IN  /\ last'.ret = "success"
                  /\ st2.resources = DeltasFrom(st.resources, decision.options[option_index + 1], 1)
                  /\ st2.pending_decisions =
                         [st.pending_decisions EXCEPT
                              ![i] = [decision EXCEPT !.resolved = TRUE,
                                                      !.chosen_option = option_index]]
                  /\ Len(st2.logs) > Len(st.logs)
                  /\ SubSeq(st2.logs, 1, Len(st.logs)) = st.logs
                  /\ st2.logs[Len(st2.logs)] =
                         LogEntry(st.tick, "DECISION RESOLVED", <<decision.title>>, option_index)
                  /\ st2.tick = st.tick
                  /\ st2.agents = st.agents
                  /\ st2.missions = st.missions
                  /\ st2.rng_state = st.rng_state
                  /\ world'.env.gen = world.env.gen
      ]_vars

\* An emergency has been resolved with its last option, whose delta on food
\* was clamped at 0.
ResolveAppliesWitness ==
    /\ last.op = "env_resolve"
    /\ last.ret = "success"
    /\ world.env.st.resources["food"] = 0
    /\ \E i \in 1..Len(world.env.st.pending_decisions) :
          /\ world.env.st.pending_decisions[i].type = "water_contamination"
          /\ world.env.st.pending_decisions[i].resolved
          /\ world.env.st.pending_decisions[i].chosen_option = 2

\* C19: resolve_decision with an unknown id reports "Decision not found", with
\* a known id and an option index < 0 or >= the number of options "Invalid
\* option index", and in both cases the World State and the generator are as
\* before the call.
ResolveRejects ==
    [][\A decision_id \in PendingIds(world.env.st) \cup {UnknownId},
          option_index \in EngineOptions :
          (last'.op = "env_resolve" /\ EngineResolve(decision_id, option_index)) =>
              LET st == world.env.st
                  i == FindDecision(st, decision_id, 1)
              IN  /\ decision_id \notin PendingIds(st) =>
                         (last'.ret = "Decision not found" /\ world'.env = world.env)
                  /\ (/\ decision_id \in PendingIds(st)
                      /\ (option_index < 0
                             \/ option_index >= Len(st.pending_decisions[i].options))) =>
                         (last'.ret = "Invalid option index" /\ world'.env = world.env)
      ]_vars

\* A resolution of a pending emergency has been rejected for its index.
ResolveRejectsWitness ==
    /\ last.op = "env_resolve"
    /\ last.ret = "Invalid option index"
    /\ world.env.st.pending_decisions # <<>>
    /\ world.ops >= 2

\* C20: a modify_resource appends a "depleted" entry to the log exactly when
\* it takes the resource from a value > 0 to 0, and appends nothing otherwise.
DepletionLoggedOnce ==
    [][\A name \in ModNames, delta \in ModDeltas :
          (last'.op = "modify_resource" /\ EngineModify(name, delta)) =>
              LET st == world.env.st
                  st2 == world'.env.st
                  crossing == get_resource(st, name) > 0 /\ get_resource(st2, name) = 0
              IN  st2.logs = IF crossing
                             THEN Append(st.logs, LogEntry(st.tick, "CRITICAL: depleted", <<name>>, 0))
                             ELSE st.logs
      ]_vars

(***************************************************************************)
(* The controller beyond a collapse: step and time_travel on a colony     *)
(* whose energy store five sabotaged ticks empty.                          *)
(***************************************************************************)
MaxLateTick == 6

CollapseSeeds == {1835}

LateStep(batch) ==
    /\ ctl.clock.current_tick < MaxLateTick
    /\ ctl.state.tick < MaxLateTick
    /\ \E r \in {step(ctl, gens, batch)} :
           /\ ctl' = r.c
           /\ gens' = r.gens
           /\ last' = Last("step", r.ret, -1, JustRewound)
    /\ UNCHANGED <<twin, script, twin_calls, root, calls, acts, replay, bench, world>>

CollapseNext ==
    \/ \E batch \in Batches : LateStep(batch)
    \/ \E target_tick \in Targets : TimeTravelAction(target_tick)

CollapseInit == \E seed \in CollapseSeeds : Construct(seed)

CollapseSpec == CollapseInit /\ [][CollapseNext]_vars

\* A step of the current timeline has reported collapse: the snapshot it
\* stored is a collapsed World State.
CollapseReported == \E i \in 1..Len(ctl.history) : is_game_over(ctl.history[i])

\* C13: once a step has reported collapse, a further step advances the tick
\* of the clock and of the live World State by 1 and appends one snapshot, and
\* a time_travel to any tick in the snapshot range succeeds.
CollapseNotTerminal ==
    [][/\ (CollapseReported /\ last'.op = "step") =>
              /\ last'.ret \in {"True", "False"}
              /\ ctl'.clock.current_tick = ctl.clock.current_tick + 1
              /\ ctl'.state.tick = ctl.state.tick + 1
              /\ Len(ctl'.history) = Len(ctl.history) + 1
       /\ \A T \in Targets :
              (/\ CollapseReported
               /\ 0 <= T
               /\ T < Len(ctl.history)
               /\ last'.op = "time_travel"
               /\ TimeTravelAction(T)) => last'.ret = "True"
      ]_vars

(***************************************************************************)
(* The log of the live World State under the controller's operations.      *)
(***************************************************************************)
IsPrefix(a, b) == Len(a) <= Len(b) /\ SubSeq(b, 1, Len(a)) = a

\* C21: within a branch the log only grows at its end: after every step of
\* the engine (one that raises included) and every resolve_decision the log
\* before the call is a prefix of the log after it; after a successful
\* time_travel(T) the live log is the log of the snapshot that was stored at
\* index T.
LogAppendOnly ==
    [][/\ last'.op \in {"step", "resolve_decision"} =>
              IsPrefix(ctl.state.logs, ctl'.state.logs)
       /\ (last'.op = "time_travel" /\ last'.ret = "True") =>
              ctl'.state.logs = ctl.history[last'.arg + 1].logs
      ]_vars

\* A time_travel to tick 1 or later has restored a log that holds the entry
\* of an emergency resolution and entries of two different ticks.
LogAppendOnlyWitness ==
    /\ last.op = "time_travel"
    /\ last.ret = "True"
    /\ last.arg >= 1
    /\ \E i \in 1..Len(ctl.state.logs) : ctl.state.logs[i].m = "DECISION RESOLVED"
    /\ \E i, j \in 1..Len(ctl.state.logs) : ctl.state.logs[i].t < ctl.state.logs[j].t

(***************************************************************************)
(* A colony at work: the MarsEnvironment on its own over many ticks.  The  *)
(* crew submits BatchMixed tick after tick; away from that routine a tick  *)
(* without actions or the resolution of an emergency is allowed, MaxDetours*)
(* times in a run.                                                         *)
(***************************************************************************)
MaxColonyTick == 20
MaxDetours == 1

ColonySeeds == {522, 3867}

ColonyBatches == {BatchMixed, <<>>}

ColonyOptions == {0, 1}

ColonyInit ==
    /\ NoControllers
    /\ bench = NoBench
    /\ last = Last("init", "none", -1, 0)
    /\ \E seed \in ColonySeeds : world = [env |-> Genesis(seed), ops |-> 0]

ColonyStep(batch) ==
    /\ world.env.st.tick < MaxColonyTick
    /\ batch # BatchMixed => world.ops < MaxDetours
    /\ \E r \in {EnvStep(world.env, batch)} :
           /\ world' = [env |-> r.env,
                        ops |-> IF batch = BatchMixed THEN world.ops ELSE world.ops + 1]
           /\ last' = Last("env_step", r.ret, -1, 0)
    /\ bench' = bench
    /\ ControllersUnchanged

ColonyResolve(decision_id, option_index) ==
    /\ world.ops < MaxDetours
    /\ \E r \in {resolve_decision(world.env.st, decision_id, option_index)} :
           /\ world' = [env |-> [world.env EXCEPT !.st = r.st], ops |-> world.ops + 1]
           /\ last' = Last("env_resolve", r.ret, -1, 0)
    /\ bench' = bench
    /\ ControllersUnchanged

ColonyNext ==
    \/ \E batch \in ColonyBatches : ColonyStep(batch)
    \/ \E decision_id \in PendingIds(world.env.st), option_index \in ColonyOptions :
           ColonyResolve(decision_id, option_index)

ColonySpec == ColonyInit /\ [][ColonyNext]_vars

CountLog(st, m) == Cardinality({i \in 1..Len(st.logs) : st.logs[i].m = m})

WithStatus(st, status) == {i \in 1..Len(st.missions) : st.missions[i].status = status}

\* The amount a mission's reward holds for resource r.
RECURSIVE RewardFrom(_, _, _)
RewardFrom(reward, r, k) ==
    IF k > Len(reward) THEN 0
    ELSE (IF reward[k][1] = r THEN reward[k][2] ELSE 0) + RewardFrom(reward, r, k + 1)

\* The sum of the rewards for resource r of the missions with index in S.
RECURSIVE Rewards(_, _, _)
Rewards(missions, S, r) ==
    IF S = {} THEN 0
    ELSE LET i == CHOOSE j \in S : TRUE
         IN  RewardFrom(missions[i].reward, r, 1) + Rewards(missions, S \ {i}, r)

\* C22: a mission's reward is paid exactly once.  In every tick the missions
\* stage adds to the resources exactly the rewards of the missions whose
\* status it changes from active to completed, and logs one completion for
\* each; a mission that is completed when a tick starts is the same record
\* after the generation stages and after the missions stage of that tick; and
\* in every World State the log holds as many completions as there are
\* completed missions.
RewardOnce ==
    /\ CountLog(world.env.st, "MISSION COMPLETE")
           = Cardinality(WithStatus(world.env.st, "completed"))
    /\ \A batch \in ColonyBatches :
       \A w7 \in {step_to_missions(world.env.st, world.env.gen, batch)} :
           w7.exc = "" =>
               \A after \in {_update_missions(w7.st, batch)} :
               \A paid \in {WithStatus(w7.st, "active") \cap WithStatus(after, "completed")} :
                   /\ Len(after.missions) = Len(w7.st.missions)
                   /\ \A i \in WithStatus(world.env.st, "completed") :
                          w7.st.missions[i] = world.env.st.missions[i]
                   /\ \A i \in WithStatus(w7.st, "completed") :
                          after.missions[i] = w7.st.missions[i]
                   /\ DOMAIN after.resources = DOMAIN w7.st.resources
                   /\ \A r \in DOMAIN after.resources :
                          after.resources[r]
                              = w7.st.resources[r] + Rewards(w7.st.missions, paid, r)
                   /\ CountLog(after, "MISSION COMPLETE")
                          = CountLog(w7.st, "MISSION COMPLETE") + Cardinality(paid)

\* Three missions have been completed and paid, the first of them five ticks
\* ago or more, and a fourth is active.
RewardOnceWitness ==
    /\ last.op = "env_step"
    /\ Cardinality(WithStatus(world.env.st, "completed")) >= 3
    /\ WithStatus(world.env.st, "active") # {}
    /\ world.env.st.missions[1].status = "completed"
    /\ world.env.st.tick >= world.env.st.missions[1].tick_created + 5
    /\ world.env.st.resources # create_initial_state.resources

(***************************************************************************)
(* harness/clock.py : a VirtualClock on its own.  world holds the clock,   *)
(* the JSON text last written by to_json and the clock as it was when the  *)
(* text was written (history, not read by the program).                    *)
(***************************************************************************)
MaxClockOps == 4

\* json.dumps and json.loads of an int: the text is the sequence of its
\* characters, a minus sign and decimal digits without leading zeros.
DigitChars == <<"0", "1", "2", "3", "4", "5", "6", "7", "8", "9">>

RECURSIVE Digits(_)
Digits(n) ==
    IF n < 10 THEN <<DigitChars[n + 1]>>
    ELSE Append(Digits(n \div 10), DigitChars[(n % 10) + 1])

json_dumps_int(n) == IF n < 0 THEN <<"-">> \o Digits(0 - n) ELSE Digits(n)

DigitValue(char) == CHOOSE d \in 0..9 : DigitChars[d + 1] = char

RECURSIVE Number(_, _)
Number(text, k) ==
    IF k = 0 THEN 0 ELSE 10 * Number(text, k - 1) + DigitValue(text[k])

json_loads_int(text) ==
    IF text[1] = "-" THEN 0 - Number(Tail(text), Len(text) - 1) ELSE Number(text, Len(text))

\* A reset to tick 0 instead of the initial tick.
clock_reset_zero(clock) == [clock EXCEPT !.current_tick = 0]

\* VirtualClock.reset
clock_reset(clock) == [clock EXCEPT !.current_tick = clock.initial_tick]

\* VirtualClock.step with its argument check: the clock after the call and
\* the exception that left it ("" if none).
clock_step_call(clock, steps) ==
    IF steps < 0 THEN [clock |-> clock, exc |-> "ValueError"]
    ELSE [clock |-> clock_step(clock, steps), exc |-> ""]

\* VirtualClock.to_json: json.dumps(self.get_state())
clock_to_json(clock) ==
    [current_tick |-> json_dumps_int(clock.current_tick),
     initial_tick |-> json_dumps_int(clock.initial_tick)]

\* VirtualClock.set_state(json.loads(text))
clock_set_state(clock, text) ==
    [clock EXCEPT !.current_tick = json_loads_int(text.current_tick),
                  !.initial_tick = json_loads_int(text.initial_tick)]

\* VirtualClock.from_json(text): a new instance, then set_state.
clock_from_json(text) ==
    clock_set_state(VirtualClock(json_loads_int(text.initial_tick)), text)

InitialTicks == {-3, 0, 10, 100}
StepCounts == {-2, -1, 0, 1, 5, 20}

\* The text of a clock constructed elsewhere, which was advanced before it
\* was serialized.
ForeignClock == clock_step(VirtualClock(7), 12)

ClockInit ==
    /\ NoControllers
    /\ bench = NoBench
    /\ last = Last("init", "none", -1, 0)
    /\ \E initial_tick \in InitialTicks :
           world = [clock |-> VirtualClock(initial_tick),
                    text |-> clock_to_json(ForeignClock), of |-> ForeignClock, ops |-> 0]

ClockStep(steps) ==
    /\ world.ops < MaxClockOps
    /\ \E r \in {clock_step_call(world.clock, steps)} :
           /\ world' = [world EXCEPT !.clock = r.clock, !.ops = @ + 1]
           /\ last' = Last("clock_step", IF r.exc = "" THEN "None" ELSE r.exc, steps, 0)
    /\ bench' = bench
    /\ ControllersUnchanged

ClockReset ==
    /\ world.ops < MaxClockOps
    /\ world' = [world EXCEPT !.clock = clock_reset(@), !.ops = @ + 1]
    /\ last' = Last("clock_reset", "None", -1, 0)
    /\ bench' = bench
    /\ ControllersUnchanged

ClockToJson ==
    /\ world.ops < MaxClockOps
    /\ world' = [world EXCEPT !.text = clock_to_json(world.clock), !.of = world.clock,
                              !.ops = @ + 1]
    /\ last' = Last("clock_to_json", "text", -1, 0)
    /\ bench' = bench
    /\ ControllersUnchanged

\* clock.set_state(json.loads(text)) on the running clock
ClockSetState ==
    /\ world.ops < MaxClockOps
    /\ world' = [world EXCEPT !.clock = clock_set_state(@, world.text), !.ops = @ + 1]
    /\ last' = Last("clock_set_state", "None", -1, 0)
    /\ bench' = bench
    /\ ControllersUnchanged

\* clock = VirtualClock.from_json(text)
ClockFromJson ==
    /\ world.ops < MaxClockOps
    /\ world' = [world EXCEPT !.clock = clock_from_json(world.text), !.ops = @ + 1]
    /\ last' = Last("clock_from_json", "clock", -1, 0)
    /\ bench' = bench
    /\ ControllersUnchanged

ClockNext ==
    \/ \E steps \in StepCounts : ClockStep(steps)
    \/ ClockReset
    \/ ClockToJson
    \/ ClockSetState
    \/ ClockFromJson

ClockSpec == ClockInit /\ [][ClockNext]_vars

\* C23: step(n) with n >= 0 adds exactly n to the tick and leaves the initial
\* tick; step(n) with n < 0 raises ValueError and leaves the clock as it
\* was; reset() sets the tick to the initial tick; a clock restored from a
\* serialized state, by set_state or by from_json, has the current and the
\* initial tick of the clock that was serialized.
ClockContract ==
    [][/\ (last'.op = "clock_step" /\ last'.arg >= 0) =>
              /\ last'.ret = "None"
              /\ world'.clock.current_tick = world.clock.current_tick + last'.arg
              /\ world'.clock.initial_tick = world.clock.initial_tick
       /\ (last'.op = "clock_step" /\ last'.arg < 0) =>
              /\ last'.ret = "ValueError"
              /\ world'.clock = world.clock
       /\ last'.op = "clock_reset" =>
              /\ world'.clock.current_tick = world.clock.initial_tick
              /\ world'.clock.initial_tick = world.clock.initial_tick
       /\ last'.op \in {"clock_set_state", "clock_from_json"} =>
              world'.clock = world.of
      ]_vars

\* A clock with a negative initial tick was advanced and serialized, advanced
\* again, restored from the text, and a reset has then set it back to the
\* initial tick, which is not the tick it was serialized at.
ClockContractWitness ==
    /\ last.op = "clock_reset"
    /\ world.ops = MaxClockOps
    /\ world.of.initial_tick < 0
    /\ world.of.current_tick > 0
    /\ world.clock.initial_tick = world.of.initial_tick
    /\ world.clock.current_tick = world.clock.initial_tick

\* C24: get_resource(name) returns 0 for a name without an entry in the
\* resource mapping and the stored amount for any other, raises nothing, and
\* leaves the World State, its resource mapping and its log included, as it
\* was.
GetResourcePure ==
    [][last'.op = "get_resource" =>
          /\ world'.env = world.env
          /\ world'.value = IF world'.name \in DOMAIN world.env.st.resources
                            THEN world.env.st.resources[world'.name]
                            ELSE 0
      ]_vars

\* get_resource was called with a name the resource mapping has no entry
\* for, after a step of the engine, and returned 0; the mapping still has no
\* entry for it.
GetResourcePureWitness ==
    /\ last.op = "get_resource"
    /\ world.name \notin DOMAIN world.env.st.resources
    /\ world.value = 0
    /\ world.env.st.tick > StarveTicks
    /\ world.env.st.logs # <<>>

\* C25: the generation of an emergency never fails.  No step of the engine
\* is left by an exception, and every emergency in the list has a type with
\* an entry in DECISION_TEMPLATES and carries that entry's title and its menu
\* of 2 or 3 options.
EmergencyHasTemplate ==
    /\ last.op = "env_step" => last.ret # "raise"
    /\ \A i \in 1..Len(world.env.st.pending_decisions) :
           LET decision == world.env.st.pending_decisions[i]
           IN  /\ decision.type \in DOMAIN DECISION_TEMPLATES
               /\ decision.title = DECISION_TEMPLATES[decision.type].title
               /\ decision.options = DECISION_TEMPLATES[decision.type].options
               /\ Len(decision.options) \in 2..3

(***************************************************************************)
(* The fallback of time_travel.  GameState.rng_state is Optional and       *)
(* defaults to None; every snapshot the controller saves has one, so the   *)
(* else branch of time_travel is taken only for a snapshot that has lost   *)
(* it.  Here one snapshot at a time loses its checkpoint                   *)
(* (controller.history[T].rng_state = None), between the controller's      *)
(* calls, MaxFallbacks times in a run.                                     *)
(***************************************************************************)
MaxFallbackTick == 3
MaxFallbacks == 1

\* The generators the two constructors create.
Construct_generators == Controller(Controller(<<>>, 0).gens, 0).gens

Intact(c) == \A i \in 1..Len(c.history) : c.history[i].rng_state # <<>>

FallbackStep(batch) ==
    /\ ctl.clock.current_tick < MaxFallbackTick
    /\ StepAction(batch)

\* After a fallback time_travel restores a generator the engine does not
\* draw from, and every further rewind leaves the engine's generator where it
\* is; a run is followed from there by steps alone, up to the tick bound.
FallbackTravel(target_tick) ==
    /\ ctl.rng = ctl.env_rng
    /\ TimeTravelAction(target_tick)

LoseCheckpoint(target_tick) ==
    /\ Len(gens) < Len(Construct_generators) + MaxFallbacks
    /\ Intact(ctl)
    /\ ctl.state.rng_state # <<>>
    /\ TargetInHistory(ctl, target_tick)
    /\ ctl' = [ctl EXCEPT !.history[target_tick + 1].rng_state = <<>>]
    /\ last' = Last("lose_checkpoint", "None", target_tick, 0)
    /\ UNCHANGED <<twin, gens, script, twin_calls, root, calls, acts, replay, bench, world>>

FallbackNext ==
    \/ \E batch \in Batches : FallbackStep(batch)
    \/ \E target_tick \in Targets : FallbackTravel(target_tick)
    \/ \E target_tick \in Targets : LoseCheckpoint(target_tick)

FallbackSpec == Init /\ [][FallbackNext]_vars

\* C26: when the snapshot time_travel(T) restores has no generator
\* checkpoint, the controller's generator after the call is a new one seeded
\* with seed + T, and the step that follows draws from it: what that step
\* leaves in the new generator and in the resources is what
\* MarsEnvironment.step gives with a generator seeded with seed + T.
FallbackDraws ==
    [][/\ (last'.op = "time_travel" /\ last'.ret = "True"
              /\ ctl.history[last'.arg + 1].rng_state = <<>>) =>
              gens'[ctl'.rng] = DeterministicRandom(ctl.seed + last'.arg)
       /\ (last.op = "time_travel" /\ last.ret = "True" /\ ctl.state.rng_state = <<>>
              /\ last'.op = "step") =>
              \E batch \in Batches :
              \E r \in {env_step(ctl.state, DeterministicRandom(ctl.seed + last.arg), batch)} :
                  /\ gens'[ctl'.rng].seed = r.w.g
                  /\ ctl'.state.resources = r.w.st.resources
      ]_vars

\* C27: collapse is terminal within a branch.  When the log of the live
\* World State holds the entry of a step that reported collapse in an earlier
\* tick of the branch, the step just taken has reported collapse too.
CollapseTerminal ==
    (/\ last.op = "step"
     /\ \E i \in 1..Len(ctl.state.logs) :
            /\ ctl.state.logs[i].m = "GAME OVER: Colony has failed."
            /\ ctl.state.logs[i].t < ctl.state.tick)
        => last.ret = "True"

\* C28: an active mission makes progress under the rule of its type: after a
\* step that no exception left, every active produce_resources mission has
\* gained 2.0 in that step, the step of its creation included, so its
\* progress is above 0.
ProductionProgresses ==
    (last.op = "env_step" /\ last.ret # "raise") =>
        \A i \in WithStatus(world.env.st, "active") :
            world.env.st.missions[i].type = "produce_resources" =>
                world.env.st.missions[i].current_value >= 200

\* C29: in every World State at most one mission is active and the list
\* holds at most MAX_MISSIONS missions; the stages of a tick up to
\* _generate_mission add a mission only when no mission was active and fewer
\* than MAX_MISSIONS were in the list when the tick started, and then they add
\* one, which is active.
OneActiveMission ==
    /\ Cardinality(WithStatus(world.env.st, "active")) <= 1
    /\ Len(world.env.st.missions) <= MAX_MISSIONS
    /\ \A batch \in ColonyBatches :
       \A w7 \in {step_to_missions(world.env.st, world.env.gen, batch)} :
           Len(w7.st.missions) # Len(world.env.st.missions) =>
               /\ WithStatus(world.env.st, "active") = {}
               /\ Len(world.env.st.missions) < MAX_MISSIONS
               /\ Len(w7.st.missions) = Len(world.env.st.missions) + 1
               /\ w7.st.missions[Len(w7.st.missions)].status = "active"
               /\ SubSeq(w7.st.missions, 1, Len(world.env.st.missions)) = world.env.st.missions

\* The list holds MAX_MISSIONS missions, all of them completed, and two ticks
\* or more have gone by since the last of them was created: a generation
\* stage has run with no mission active and the list full.
OneActiveMissionWitness ==
    /\ last.op = "env_step"
    /\ Len(world.env.st.missions) = MAX_MISSIONS
    /\ WithStatus(world.env.st, "completed") = 1..MAX_MISSIONS
    /\ world.env.st.tick >= world.env.st.missions[MAX_MISSIONS].tick_created + 2

\* C30: the list of emergencies holds at most MAX_PENDING_DECISIONS records,
\* the resolved ones included: every step and every resolution leaves each
\* record of the list at its place, with its id and, once resolved, resolved;
\* so once the list holds MAX_PENDING_DECISIONS records no step adds another.
PendingCapped ==
    [][LET before == world.env.st.pending_decisions
           after == world'.env.st.pending_decisions
       IN  /\ Len(after) <= MAX_PENDING_DECISIONS
           /\ Len(before) <= Len(after)
           /\ \A i \in 1..Len(before) :
                  /\ after[i].id = before[i].id
                  /\ before[i].resolved => after[i].resolved
      ]_vars

\* The list holds MAX_PENDING_DECISIONS emergencies, one of them resolved, and
\* a step has been taken two ticks or more after the last of them was
\* created.
PendingCappedWitness ==
    /\ last.op = "env_step"
    /\ Len(world.env.st.pending_decisions) = MAX_PENDING_DECISIONS
    /\ \E i \in 1..MAX_PENDING_DECISIONS : world.env.st.pending_decisions[i].resolved
    /\ world.env.st.tick
           >= world.env.st.pending_decisions[MAX_PENDING_DECISIONS].tick_created + 2
    /\ CountLog(world.env.st, "EMERGENCY") = MAX_PENDING_DECISIONS

\* C31: an emergency is resolved once.  A resolve_decision on the id of an
\* emergency that is already resolved changes neither the resources nor the
\* emergency: its resolved flag and its chosen option stay as they are.
ResolvedIsFinal ==
    [][\A decision_id \in PendingIds(world.env.st), option_index \in EngineOptions :
          (/\ last'.op = "env_resolve"
           /\ world.env.st.pending_decisions[FindDecision(world.env.st, decision_id, 1)].resolved
           /\ EngineResolve(decision_id, option_index)) =>
              /\ world'.env.st.resources = world.env.st.resources
              /\ world'.env.st.pending_decisions = world.env.st.pending_decisions
      ]_vars

(***************************************************************************)
(* A colony without food: the MarsEnvironment from the state StarveTicks   *)
(* ticks after the food store was emptied, stepped MaxFamineTicks times.   *)
(***************************************************************************)
MaxFamineTicks == 4

FamineSeeds == {23, 52}

FamineInit ==
    /\ NoControllers
    /\ bench = NoBench
    /\ last = Last("init", "none", -1, 0)
    /\ \E seed \in FamineSeeds : world = [env |-> Starved(seed), ops |-> 0]

FamineStep(batch) ==
    /\ world.ops < MaxFamineTicks
    /\ \E r \in {EnvStep(world.env, batch)} :
           /\ world' = [env |-> r.env, ops |-> world.ops + 1]
           /\ last' = Last("env_step", r.ret, -1, 0)
    /\ bench' = bench
    /\ ControllersUnchanged

\* A research action between two eat actions.
BatchStudy ==
    << AgentAction(EAT, "storage", <<"Dr. Rodriguez">>),
       AgentAction(RESEARCH, "laboratory", <<"Botanist Schmidt">>),
       AgentAction(EAT, "storage", <<"Pilot Okafor">>) >>

FamineBatches == EngineBatches \cup {BatchStudy}

FamineNext == \E batch \in FamineBatches : FamineStep(batch)

FamineSpec == FamineInit /\ [][FamineNext]_vars

\* C32: at the end of every step of the engine that returns, whatever the
\* actions, every actor's health is in [0, 100].
HealthInRange ==
    (last.op = "env_step" /\ last.ret # "raise") =>
        \A name \in DOMAIN world.env.st.agents :
            /\ world.env.st.agents[name].health >= 0
            /\ world.env.st.agents[name].health <= 10000

\* ---------------------------------------------------------------------------
\* A worn-out colony: the food store is emptied, every actor eats for a
\* number of ticks (starvation and the eaten ration cancel, the mental state
\* decays), then the pilot alone goes without food and dies.
\* ---------------------------------------------------------------------------

MaxWornTicks == 4

WornSeeds == {2461}

EatAction(name) == AgentAction(EAT, "storage", <<name>>)

BatchFeed ==
    << EatAction("Commander Chen"), EatAction("Dr. Rodriguez"),
       EatAction("Engineer Tanaka"), EatAction("Botanist Schmidt"),
       EatAction("Pilot Okafor") >>

BatchFast == SubSeq(BatchFeed, 1, 4)

BatchRevive == BatchFast \o << EatAction("Pilot Okafor"), EatAction("Pilot Okafor") >>

WornBatches == {<<>>, BatchFast, BatchRevive}

\* The actions submitted in the tick after ops ticks: forty ticks in which
\* everyone eats, thirty in which the pilot does not, then any batch.
WornSchedule(ops) ==
    IF ops < 40 THEN {BatchFeed}
    ELSE IF ops < 70 THEN {BatchFast}
    ELSE WornBatches

Emptied(seed) ==
    Bind(Genesis(seed), LAMBDA env :
        [env EXCEPT !.st = modify_resource(@, "food", -60000)])

WornInit ==
    /\ NoControllers
    /\ bench = NoBench
    /\ last = Last("init", "none", -1, 0)
    /\ \E seed \in WornSeeds : world = [env |-> Emptied(seed), ops |-> 0]

WornStep(batch) ==
    /\ world.ops < 70 + MaxWornTicks
    /\ batch \in WornSchedule(world.ops)
    /\ \E r \in {EnvStep(world.env, batch)} :
           /\ world' = [env |-> r.env, ops |-> world.ops + 1]
           /\ last' = Last("env_step", r.ret, -1, 0)
    /\ bench' = bench
    /\ ControllersUnchanged

WornNext == \E batch \in WornBatches \cup {BatchFeed} : WornStep(batch)

WornSpec == WornInit /\ [][WornNext]_vars

\* C33: at the end of every step of the engine that returns, every actor's
\* mental state is in [0, 100].
MentalInRange ==
    (last.op = "env_step" /\ last.ret # "raise") =>
        \A name \in DOMAIN world.env.st.agents :
            /\ world.env.st.agents[name].mental_state >= 0
            /\ world.env.st.agents[name].mental_state <= 10000

\* The death entries for an actor among the log entries from index k on.
Deaths(st, name, k) ==
    Cardinality({i \in k..Len(st.logs) :
                    st.logs[i].m = "TRAGEDY: has died" /\ st.logs[i].a = <<name>>})

\* C34: a step appends a death entry for an actor exactly when the actor had
\* health > 0 at the start of the tick and health <= 0 at the actor update,
\* which then leaves it at health 0; it appends one entry then and none for
\* an actor that started the tick dead, and none when the step is left by an
\* exception before the update.
DeathLoggedOnce ==
    [][last'.op = "env_step" =>
          \A name \in AgentNames :
              Deaths(world'.env.st, name, Len(world.env.st.logs) + 1) =
                  IF /\ last'.ret # "raise"
                     /\ world.env.st.agents[name].health > 0
                     /\ world'.env.st.agents[name].health <= 0
                  THEN 1 ELSE 0
      ]_vars

\* A step that has logged one actor's death while another actor, whose death
\* was logged in an earlier tick, stayed dead without a new entry.
DeathLoggedOnceWitness ==
    /\ last.op = "env_step"
    /\ \E i \in 1..Len(world.env.st.logs), j \in 1..Len(world.env.st.logs) :
           /\ world.env.st.logs[i].m = "TRAGEDY: has died"
           /\ world.env.st.logs[i].t = world.env.st.tick
           /\ world.env.st.logs[j].m = "TRAGEDY: has died"
           /\ world.env.st.logs[j].t < world.env.st.tick
           /\ world.env.st.logs[j].a # world.env.st.logs[i].a
           /\ world.env.st.agents[world.env.st.logs[j].a[1]].health <= 0
           /\ \A k \in 1..Len(world.env.st.logs) :
                  world.env.st.logs[k].t = world.env.st.tick =>
                      ~(/\ world.env.st.logs[k].m = "TRAGEDY: has died"
                        /\ world.env.st.logs[k].a = world.env.st.logs[j].a)

\* C35: a call on the Generator that raises (next_int with max < min, choice
\* on an empty sequence) leaves the Generator as it was, so the draws that
\* follow are those of a Generator on which the call was never made.
FailedCallKeepsGenerator ==
    [][\A call \in Calls :
          (/\ last'.op = "draw"
           /\ last'.ret = "raise"
           /\ BenchDraw(call)) =>
              /\ bench'.g = bench.g
              /\ \A next \in Calls :
                     Result(next, Invoke(bench'.g, next)) = Result(next, Invoke(bench.g, next))
      ]_vars

\* The World at the start of the action-effects stage of a step on env.
BeforeActions(env) ==
    Bind(World([env.st EXCEPT !.tick = @ + 1], env.gen, ""), LAMBDA w0 :
        OnState(w0, _consume_resources(w0.st, Len(alive_agents(env.st)))))

RECURSIVE WithoutResearch(_)
WithoutResearch(actions) ==
    IF actions = <<>> THEN <<>>
    ELSE (IF Head(actions).type = RESEARCH THEN <<>> ELSE <<Head(actions)>>)
         \o WithoutResearch(Tail(actions))

ActionEntry(tick, action) ==
    LogEntry(tick, "ACTION", <<action.type, action.target>> \o action.argument, 0)

\* C36: the action-effects stage of a step appends one entry per submitted
\* action, in order, before the entries any effect appends; and a research
\* action has no effect: the stage leaves the resources, the actors and the
\* generator as it leaves them for the batch without the research actions.
ActionsLoggedFirst ==
    [][\A batch \in FamineBatches :
          (last'.op = "env_step" /\ FamineStep(batch)) =>
              \A w1 \in {BeforeActions(world.env)} :
              \A n \in {Len(w1.st.logs)} :
              \A done \in {_process_actions(w1, batch)} :
              \A plain \in {_process_actions(w1, WithoutResearch(batch))} :
                  /\ Len(world'.env.st.logs) >= n + Len(batch)
                  /\ SubSeq(world'.env.st.logs, 1, n) = w1.st.logs
                  /\ \A i \in 1..Len(batch) :
                         world'.env.st.logs[n + i] = ActionEntry(w1.st.tick, batch[i])
                  /\ \A i \in (n + Len(batch) + 1)..Len(world'.env.st.logs) :
                         world'.env.st.logs[i].m # "ACTION"
                  /\ done.st.resources = plain.st.resources
                  /\ done.st.agents = plain.st.agents
                  /\ done.g = plain.g
                  /\ Len(done.st.logs) = Len(plain.st.logs) + Len(batch) - Len(WithoutResearch(batch))
      ]_vars

\* A step whose batch held a research action between two eat actions has
\* logged the three actions and, after them, the depletion the first eat
\* action caused.
ActionsLoggedFirstWitness ==
    /\ last.op = "env_step"
    /\ \E i \in 1..Len(world.env.st.logs) :
           /\ i + 2 <= Len(world.env.st.logs)
           /\ world.env.st.logs[i] = ActionEntry(world.env.st.tick, BatchStudy[1])
           /\ world.env.st.logs[i + 1] = ActionEntry(world.env.st.tick, BatchStudy[2])
           /\ world.env.st.logs[i + 2] = ActionEntry(world.env.st.tick, BatchStudy[3])
           /\ world.env.st.logs[i + 3].m = "CRITICAL: depleted"

\* C37: every snapshot the controller holds, the genesis snapshot included,
\* and the live World State carry a generator checkpoint, and the controller's
\* generator is the one the engine draws from: no rewind takes the
\* reseed-from-seed+tick branch.
CheckpointInEverySnapshot ==
    /\ Intact(ctl)
    /\ ctl.state.rng_state # <<>>
    /\ ctl.rng = ctl.env_rng

\* A rewind to a later tick than genesis, after which the controller and the
\* engine still share the generator, now at the snapshot's checkpoint.
CheckpointInEverySnapshotWitness ==
    /\ last.op = "time_travel"
    /\ last.ret = "True"
    /\ last.arg >= 1
    /\ ctl.rng = ctl.env_rng
    /\ get_state(gens[ctl.rng]) = ctl.history[Len(ctl.history)].rng_state[1]

\* The snapshot of the tick the controller's clock shows.
SnapshotNow(c) == c.history[c.clock.current_tick + 1]

\* C38: resolve_decision writes the live World State only: the snapshot
\* list, the clock and the generator stay as they are, so the snapshot of the
\* current tick lacks the resolution; the snapshot the next returning step
\* stores holds every resolved record of the live state; and a time_travel to
\* the current tick issued right after the resolution brings back the
\* snapshot, which does not hold the resolution.
ResolveLiveOnly ==
    [][/\ last'.op = "resolve_decision" =>
              /\ ctl'.history = ctl.history
              /\ ctl'.clock = ctl.clock
              /\ gens' = gens
              /\ last'.ret = "success" =>
                     /\ Resolutions(ctl'.state) = Resolutions(ctl.state) + 1
                     /\ Resolutions(SnapshotNow(ctl')) < Resolutions(ctl'.state)
       /\ (last'.op = "step" /\ last'.ret # "raise") =>
              /\ Resolutions(ctl'.history[Len(ctl'.history)]) = Resolutions(ctl.state)
              /\ \A i \in 1..Len(ctl.state.pending_decisions) :
                     ctl.state.pending_decisions[i].resolved =>
                         ctl'.history[Len(ctl'.history)].pending_decisions[i]
                             = ctl.state.pending_decisions[i]
       /\ (/\ last.op = "resolve_decision"
           /\ last.ret = "success"
           /\ last'.op = "time_travel"
           /\ last'.arg = ctl.clock.current_tick) =>
              /\ ctl'.state = SnapshotNow(ctl)
              /\ Resolutions(ctl'.state) < Resolutions(ctl.state)
      ]_vars

\* An emergency was resolved at some tick, the next step stored a snapshot
\* holding the resolved record, and the snapshot before it does not hold it.
ResolveLiveOnlyWitness ==
    /\ last.op = "step"
    /\ last.ret # "raise"
    /\ Len(ctl.history) >= 2
    /\ Resolutions(ctl.history[Len(ctl.history)]) = 1
    /\ Resolutions(ctl.history[Len(ctl.history) - 1]) = 0
    /\ \E i \in 1..Len(ctl.state.pending_decisions) : ctl.state.pending_decisions[i].resolved

(***************************************************************************)
(* The controller driven as the server drives it, on a colony whose first  *)
(* step is left by an exception.                                           *)
(***************************************************************************)
MaxStampTick == 3

StampSeeds == {68}

StampStep(batch) ==
    /\ ctl.clock.current_tick < MaxStampTick
    /\ ctl.state.tick < MaxStampTick
    /\ \E r \in {step(ctl, gens, batch)} :
           /\ ctl' = r.c
           /\ gens' = r.gens
           /\ last' = Last("step", r.ret, -1, JustRewound)
    /\ UNCHANGED <<twin, script, twin_calls, root, calls, acts, replay, bench, world>>

StampInit == \E seed \in StampSeeds : Construct(seed)

StampNext ==
    \/ \E batch \in Batches : StampStep(batch)
    \/ \E target_tick \in Targets : TimeTravelAction(target_tick)
    \/ \E decision_id \in PendingIds(ctl.state) \cup {UnknownId}, option_index \in OptionIndices :
           ResolveAction(decision_id, option_index)

StampSpec == StampInit /\ [][StampNext]_vars

\* C40: the tick stamps of the live log never decrease from one entry to the
\* next, whatever calls of step, resolve_decision and time_travel were made.
LogTicksMonotone ==
    \A i \in 1..(Len(ctl.state.logs) - 1) :
        ctl.state.logs[i].t <= ctl.state.logs[i + 1].t

(***************************************************************************)
(* The controller on a colony whose sixteenth step is left by an           *)
(* exception: idle crews up to there, any batch in the last tick.          *)
(***************************************************************************)
MaxRepeatTick == 16

RepeatSeeds == {124938}

BatchIdle == [i \in 1..5 |-> AgentAction(RESEARCH, "laboratory", <<>>)]

BatchTwoSabotage ==
    [i \in 1..5 |-> IF i <= 2 THEN AgentAction(SABOTAGE, "solar_panel", <<>>)
                    ELSE AgentAction(RESEARCH, "laboratory", <<>>)]

RepeatBatches == {BatchIdle, BatchTwoSabotage}

RepeatStep(batch) ==
    /\ ctl.clock.current_tick < MaxRepeatTick
    /\ ctl.state.tick < MaxRepeatTick
    /\ ctl.clock.current_tick < MaxRepeatTick - 1 => batch = BatchIdle
    /\ \E r \in {step(ctl, gens, batch)} :
           /\ ctl' = r.c
           /\ gens' = r.gens
           /\ last' = Last("step", r.ret, -1, JustRewound)
    /\ UNCHANGED <<twin, script, twin_calls, root, calls, acts, replay, bench, world>>

RepeatInit == \E seed \in RepeatSeeds : Construct(seed)

RepeatNext ==
    \/ \E batch \in RepeatBatches : RepeatStep(batch)
    \/ \E target_tick \in Targets : TimeTravelAction(target_tick)

RepeatSpec == RepeatInit /\ [][RepeatNext]_vars

\* C39: no two emergency records of the live World State have the same id.
EmergencyIdsUnique ==
    \A i, j \in 1..Len(ctl.state.pending_decisions) :
        i # j => ctl.state.pending_decisions[i].id # ctl.state.pending_decisions[j].id

====
